---------------------------- MODULE Spec2Model ----------------------------
(***************************************************************************)
(* Bulk synchronisation engine of the LeetCode tracker extension:          *)
(* SyncService (scripts/services/sync-service.js), the controller's        *)
(* startSync (background.js) and GithubService.submitToGitHub              *)
(* (scripts/services/github-service.js).                                   *)
(*                                                                         *)
(* One step of the model is one event-loop task: the reaction to a         *)
(* storage answer, a network answer or a timer, together with every        *)
(* promise continuation that runs before the next task.                    *)
(***************************************************************************)
EXTENDS Integers, Sequences, FiniteSets, TLC

(* ---------------- program constants ---------------- *)
maxParallel == 5
maxRetries == 3

(* ---------------- bounds of the model ---------------- *)
MaxProblems == 5
MaxBacklog == 7
MaxSessionBacklog == 2
MaxDetails == 2
MaxSubmissions == 4
MaxFailing == 4
MaxAnswers == 4
MaxWithCode == 3
MaxOverlap == 1
NumLangs == 1
MaxStarts == 3
MaxClock == 2
MaxCalls == 2

Problems == 1..MaxBacklog
Langs == 1..NumLangs
Runs == 1..MaxStarts
Slots == 1..(maxParallel + MaxProblems)
Loops == 1..MaxStarts
NoWorker == [phase |-> "none"]
NoLoop == [phase |-> "none"]

VARIABLES
  store,             \* chrome.storage.local: the sync flags
  stats,             \* this.stats
  failedProblems,    \* this.failedProblems
  retryCount,        \* this.retryCount
  activePromises,    \* keys of this.activePromises
  isSyncing,         \* this.isSyncing
  githubQueue,       \* this.githubQueue
  githubProcessing,  \* this.githubProcessing
  cachedProblems,    \* leetcodeService.cachedProblems (null until a list is cached)
  nextIndex,         \* per processProblemsQueue call: nextIndex
  isPaused,          \* per call: isPaused
  problemsToProcess, \* per call: problemsToProcess
  pauseTimer,        \* per call: the handle in pauseTimer ("null" or its callback)
  armed,             \* per call: timers set and neither fired nor cleared
  pc,                \* per start command: position in startSync
  result,            \* per start command: the result object of SyncService.startSync
  workers,           \* in-flight processProblem calls (written: the files each has put in the repository)
  loops,             \* live processGithubQueue calls
  repo,              \* files present in the remote repository
  userLoggedIn,      \* whether the problem source has an authenticated session
  solved,            \* what the problem source lists as solved
  accepted,          \* per problem: the languages of its accepted submissions with code
  hist,              \* per problem: outcomes of its attempts, oldest first
  tally,             \* per problem: how often it was added to processed / failed
  starts,            \* start commands that passed the in-progress guard
  puts,              \* number of PUT requests that created a file
  lateTrigger,       \* per call: a pause trigger came after the pending resume timer was set
  now,               \* the wall clock, in seconds
  files,             \* the repository as a GithubService of the content script sees it
  settings,          \* the stored settings read by submitToGitHub
  submissionInProgress, \* GithubService.submissionInProgress
  thisProblem,       \* GithubService.problem (this.problem)
  thisComment,       \* GithubService.comment (this.comment)
  call,              \* per submitToGitHub call: its position and locals
  writes,            \* PUT requests for a solution file that were accepted
  statsUpdates,      \* updateDifficultyStats messages sent
  listResponse,      \* the answer to the submission-list call of one fetch
  detailResponses,   \* the answers to its submission-detail calls, in order
  fetched,           \* what getSubmissionsByLanguage made of them
  submissions,       \* the submissions array of one list response
  submissionsByLang, \* per language: the submission retained from it
  location,          \* location.pathname of the page shown, as its segments
  problemSlug,       \* RouteService.problemSlug
  observing,         \* the MutationObserver of RouteService is connected
  records,           \* mutation records wait to be delivered to that observer
  routeTimers,       \* setTimeout callbacks of RouteService that have not run yet
  problemUrl,        \* the problem name in tracker.problem.problemUrl
  visits,            \* navigations made so far, of any kind
  navigations,       \* those of them that went from one problem to another
  invocations,       \* invocations of onRouteChange so far
  spaced             \* every navigation so far went to a problem page and began at rest

vars == <<store, stats, failedProblems, retryCount, activePromises, isSyncing,
          githubQueue, githubProcessing, cachedProblems, nextIndex, isPaused,
          problemsToProcess, pauseTimer, armed, pc, result, workers, loops,
          repo, userLoggedIn, solved, accepted, hist, tally, starts, puts, lateTrigger,
          now, files, settings, submissionInProgress, thisProblem, thisComment, call,
          writes, statsUpdates, listResponse, detailResponses, fetched,
          submissions, submissionsByLang, location, problemSlug, observing, records,
          routeTimers, problemUrl, visits, navigations, invocations, spaced>>

routeVars == <<location, problemSlug, observing, records, routeTimers, problemUrl,
               visits, navigations, invocations, spaced>>

fetchVars == <<listResponse, detailResponses, fetched, submissions, submissionsByLang>>

syncVars == <<store, stats, failedProblems, retryCount, activePromises, isSyncing,
              githubQueue, githubProcessing, cachedProblems, nextIndex, isPaused,
              problemsToProcess, pauseTimer, armed, pc, result, workers, loops,
              repo, userLoggedIn, solved, accepted, hist, tally, starts, puts,
              lateTrigger>>

submitVars == <<now, files, settings, submissionInProgress, thisProblem, thisComment,
                call, writes, statsUpdates>>

Min(a, b) == IF a < b THEN a ELSE b

Range(s) == {s[i] : i \in 1..Len(s)}

ZeroStats == [total |-> 0, synced |-> 0, failed |-> 0, current |-> 0,
              processed |-> 0, skipped |-> 0]

NoResult == [success |-> FALSE, status |-> "none"]

(* All the state in one record, so that the handlers compose as functions. *)
St == [store |-> store, stats |-> stats, failedProblems |-> failedProblems,
       retryCount |-> retryCount, activePromises |-> activePromises,
       isSyncing |-> isSyncing, githubQueue |-> githubQueue,
       githubProcessing |-> githubProcessing, cachedProblems |-> cachedProblems,
       nextIndex |-> nextIndex, isPaused |-> isPaused,
       problemsToProcess |-> problemsToProcess, pauseTimer |-> pauseTimer,
       armed |-> armed, pc |-> pc, result |-> result, workers |-> workers,
       loops |-> loops, repo |-> repo, hist |-> hist, tally |-> tally,
       starts |-> starts, puts |-> puts, lateTrigger |-> lateTrigger, ok |-> TRUE]

Commit(S) ==
  /\ S.ok
  /\ store' = S.store
  /\ stats' = S.stats
  /\ failedProblems' = S.failedProblems
  /\ retryCount' = S.retryCount
  /\ activePromises' = S.activePromises
  /\ isSyncing' = S.isSyncing
  /\ githubQueue' = S.githubQueue
  /\ githubProcessing' = S.githubProcessing
  /\ cachedProblems' = S.cachedProblems
  /\ nextIndex' = S.nextIndex
  /\ isPaused' = S.isPaused
  /\ problemsToProcess' = S.problemsToProcess
  /\ pauseTimer' = S.pauseTimer
  /\ armed' = S.armed
  /\ pc' = S.pc
  /\ result' = S.result
  /\ workers' = S.workers
  /\ loops' = S.loops
  /\ repo' = S.repo
  /\ hist' = S.hist
  /\ tally' = S.tally
  /\ starts' = S.starts
  /\ puts' = S.puts
  /\ lateTrigger' = S.lateTrigger
  /\ UNCHANGED <<userLoggedIn, solved, accepted>>
  /\ UNCHANGED submitVars
  /\ UNCHANGED fetchVars
  /\ UNCHANGED routeVars

(* ---------------- the write queue ---------------- *)

FreeLoops(S) == {l \in Loops : S.loops[l].phase = "none"}

(* processGithubQueue, up to its first await: returns at once when a loop
   is already running or nothing is queued, else takes the head operation
   and starts it (init, then the existence check). *)
processGithubQueue(S) ==
  IF S.githubProcessing \/ Len(S.githubQueue) = 0 THEN S
  ELSE IF FreeLoops(S) = {} THEN [S EXCEPT !.ok = FALSE]
  ELSE LET l == CHOOSE x \in FreeLoops(S) : \A y \in FreeLoops(S) : x <= y
       IN [S EXCEPT !.githubProcessing = TRUE,
                    !.loops[l] = [phase |-> "check", op |-> Head(S.githubQueue)],
                    !.githubQueue = Tail(S.githubQueue)]

(* processGithubOperation: push the operation, then poke the queue. *)
processGithubOperation(S, op) ==
  processGithubQueue([S EXCEPT !.githubQueue = Append(@, op)])

(* ---------------- the scheduler of one processProblemsQueue call ---------------- *)

clearTimeout(S, r) ==
  LET h == S.pauseTimer[r]
  IN IF h = "null" \/ S.armed[r][h] = 0 THEN S
     ELSE [S EXCEPT !.armed[r][h] = @ - 1]

setTimeout(S, r, callback) ==
  [S EXCEPT !.armed[r][callback] = @ + 1, !.pauseTimer[r] = callback]

(* pauseAndScheduleResume without its isPaused test and its clearTimeout. *)
pauseAndScheduleResumeStacking(S, r) ==
  setTimeout([S EXCEPT !.isPaused[r] = TRUE], r, "resume")

(* Lines 248-258: when the pool is paused already, nothing is done and the
   pending timer stays as it was set. *)
pauseAndScheduleResume(S, r) ==
  IF ~S.isPaused[r]
  THEN setTimeout(clearTimeout([S EXCEPT !.isPaused[r] = TRUE,
                                         !.lateTrigger[r] = FALSE], r), r, "resume")
  ELSE [S EXCEPT !.lateTrigger[r] = TRUE]

FreeSlots(S) == {w \in Slots : S.workers[w].phase = "none"}

Occurrences(s, p) == Cardinality({i \in 1..Len(s) : s[i] = p})

(* resolveQueue without lines 303-304. *)
resolveQueueUncounted(S, r) ==
  [S EXCEPT !.isSyncing = FALSE,
            !.pc[r] = IF @ = "queue" THEN "resolved" ELSE @]

(* Lines 301-308: the retry budget is spent, the deferred problems are
   counted as failed, and the promise of processProblemsQueue resolves. *)
resolveQueue(S, r) ==
  LET n == Len(S.failedProblems)
      S1 == [S EXCEPT !.stats.failed = @ + n, !.stats.processed = @ + n,
                      !.tally = [p \in Problems |->
                                  [processed |-> @[p].processed + Occurrences(S.failedProblems, p),
                                   failed |-> @[p].failed + Occurrences(S.failedProblems, p)]]]
  IN [S1 EXCEPT !.isSyncing = FALSE,
                !.pc[r] = IF @ = "queue" THEN "resolved" ELSE @]

(* startNextProblem with retryCount <= maxRetries at line 274. *)
startNextProblemOffByOne(S, r) ==
  IF S.isPaused[r] THEN S
  ELSE IF S.nextIndex[r] >= Len(S.problemsToProcess[r]) THEN
    IF Cardinality(S.activePromises) = 0 THEN
      IF Len(S.failedProblems) > 0 /\ S.retryCount <= maxRetries
      THEN setTimeout(
             clearTimeout([S EXCEPT !.retryCount = @ + 1,
                                    !.problemsToProcess[r] = S.failedProblems,
                                    !.failedProblems = <<>>,
                                    !.nextIndex[r] = 0,
                                    !.isPaused[r] = TRUE], r),
             r, "retry")
      ELSE resolveQueue(S, r)
    ELSE S
  ELSE IF FreeSlots(S) = {} THEN [S EXCEPT !.ok = FALSE]
  ELSE LET problem == S.problemsToProcess[r][S.nextIndex[r] + 1]
           currentIndex == S.nextIndex[r]
           w == CHOOSE x \in FreeSlots(S) : \A y \in FreeSlots(S) : x <= y
       IN [S EXCEPT !.nextIndex[r] = @ + 1,
                    !.stats.current = currentIndex + 1,
                    !.workers[w] = [phase |-> "fetch", run |-> r,
                                    index |-> currentIndex, problem |-> problem,
                                    langs |-> {}, created |-> 0,
                                    written |-> 0],
                    !.activePromises = @ \cup {currentIndex}]

(* Lines 268-342 of startNextProblem: what it does when the pool is not
   paused. *)
startNextProblemUnpaused(S, r) ==
  IF S.nextIndex[r] >= Len(S.problemsToProcess[r]) THEN
    IF Cardinality(S.activePromises) = 0 THEN
      IF Len(S.failedProblems) > 0 /\ S.retryCount < maxRetries
      THEN setTimeout(
             clearTimeout([S EXCEPT !.retryCount = @ + 1,
                                    !.problemsToProcess[r] = S.failedProblems,
                                    !.failedProblems = <<>>,
                                    !.nextIndex[r] = 0,
                                    !.isPaused[r] = TRUE], r),
             r, "retry")
      ELSE resolveQueue(S, r)
    ELSE S
  ELSE IF FreeSlots(S) = {} THEN [S EXCEPT !.ok = FALSE]
  ELSE LET problem == S.problemsToProcess[r][S.nextIndex[r] + 1]
           currentIndex == S.nextIndex[r]
           w == CHOOSE x \in FreeSlots(S) : \A y \in FreeSlots(S) : x <= y
       IN [S EXCEPT !.nextIndex[r] = @ + 1,
                    !.stats.current = currentIndex + 1,
                    !.workers[w] = [phase |-> "fetch", run |-> r,
                                    index |-> currentIndex, problem |-> problem,
                                    langs |-> {}, created |-> 0,
                                    written |-> 0],
                    !.activePromises = @ \cup {currentIndex}]

(* Lines 263-267: nothing is started while the pool is paused. *)
startNextProblem(S, r) ==
  IF S.isPaused[r] THEN S ELSE startNextProblemUnpaused(S, r)

RECURSIVE startNextProblems(_, _, _)
startNextProblems(S, r, n) ==
  IF n <= 0 THEN S ELSE startNextProblems(startNextProblem(S, r), r, n - 1)

(* The callback armed by pauseAndScheduleResume. *)
resumeSync(S, r) ==
  LET S1 == [S EXCEPT !.isPaused[r] = FALSE, !.pauseTimer[r] = "null",
                      !.lateTrigger[r] = FALSE]
      activeCount == Cardinality(S1.activePromises)
      slotsToFill == Min(maxParallel - activeCount,
                         Len(S1.problemsToProcess[r]) - S1.nextIndex[r])
  IN startNextProblems(S1, r, slotsToFill)

(* The callback armed at the start of a retry round (lines 287-298). *)
retryResume(S, r) ==
  LET S1 == [S EXCEPT !.isPaused[r] = FALSE, !.pauseTimer[r] = "null"]
  IN startNextProblems(S1, r, Min(maxParallel, Len(S1.problemsToProcess[r])))

(* ---------------- one processProblem call ---------------- *)

Record(S, p, outcome) == [S EXCEPT !.hist[p] = Append(@, outcome)]

(* completion without the calls of lines 332 and 339: a finished worker
   frees its entry and pulls nothing. *)
completionPullsNothing(S, w) ==
  [S EXCEPT !.activePromises = @ \ {S.workers[w].index}, !.workers[w] = NoWorker]

(* completion without the tests of lines 264 and 331/338: a finished
   worker pulls the next backlog item even while the pool is paused. *)
completionIgnoresPause(S, w) ==
  startNextProblemUnpaused(
    [S EXCEPT !.activePromises = @ \ {S.workers[w].index}, !.workers[w] = NoWorker],
    S.workers[w].run)

(* Lines 328-342: both completion handlers drop the map entry and pull the
   next backlog item unless the pool is paused. *)
completion(S, w) ==
  LET r == S.workers[w].run
      S1 == [S EXCEPT !.activePromises = @ \ {S.workers[w].index},
                      !.workers[w] = NoWorker]
  IN IF ~S1.isPaused[r] THEN startNextProblem(S1, r) ELSE S1

(* processProblemDone without the test of line 419: every problem that
   ends without an error counts as synced. *)
processProblemDoneAlwaysSynced(S, w) ==
  LET p == S.workers[w].problem
      S2 == [S EXCEPT !.stats.synced = @ + 1,
                      !.stats.processed = @ + 1,
                      !.tally[p].processed = @ + 1]
  IN completion(Record(S2, p, "ok"), w)

(* Lines 419-428. *)
processProblemDone(S, w) ==
  LET p == S.workers[w].problem
      S1 == IF S.workers[w].created > 0
            THEN [S EXCEPT !.stats.synced = @ + 1]
            ELSE [S EXCEPT !.stats.skipped = @ + 1]
      S2 == [S1 EXCEPT !.stats.processed = @ + 1,
                       !.tally[p].processed = @ + 1]
  IN completion(Record(S2, p, "ok"), w)

(* processProblemFailed without the needsPause test of line 318: every
   failed problem is deferred and pauses the pool. *)
processProblemFailedDefersAll(S, w, needsPause, outcome) ==
  LET p == S.workers[w].problem
      r == S.workers[w].run
      S0 == pauseAndScheduleResume([S EXCEPT !.failedProblems = Append(@, p)], r)
      S1 == IF needsPause THEN S0
            ELSE [S0 EXCEPT !.stats.failed = @ + 1,
                            !.stats.processed = @ + 1,
                            !.tally[p].processed = @ + 1,
                            !.tally[p].failed = @ + 1]
  IN completion(Record(S1, p, outcome), w)

(* Lines 429-440 and 316-323: the catch of processProblem, then the catch
   in startNextProblem. *)
processProblemFailed(S, w, needsPause, outcome) ==
  LET p == S.workers[w].problem
      r == S.workers[w].run
      S1 == IF needsPause
            THEN pauseAndScheduleResume(
                   [S EXCEPT !.failedProblems = Append(@, p)], r)
            ELSE [S EXCEPT !.stats.failed = @ + 1,
                           !.stats.processed = @ + 1,
                           !.tally[p].processed = @ + 1,
                           !.tally[p].failed = @ + 1]
  IN completion(Record(S1, p, outcome), w)

LeastOf(set) == CHOOSE x \in set : \A y \in set : x <= y

(* The body of the for-in loop of processProblem for the next language,
   or the end of the loop. *)
nextLanguage(S, w) ==
  IF S.workers[w].langs = {} THEN processProblemDone(S, w)
  ELSE LET lang == LeastOf(S.workers[w].langs)
       IN processGithubOperation(
            [S EXCEPT !.workers[w].langs = @ \ {lang},
                      !.workers[w].phase = "write"],
            [w |-> w, problem |-> S.workers[w].problem, lang |-> lang])

(* Lines 414-416, after the queued operation has resolved. *)
operationResolved(S, w, fileCreated) ==
  nextLanguage(IF fileCreated THEN [S EXCEPT !.workers[w].created = @ + 1] ELSE S, w)

(* ---------------- responses of the problem source ---------------- *)

NetworkFailure == 0

(* A response of the problem source: a network failure or an error status
   (whose body is not read), or a 200 whose body has the data, has a
   GraphQL errors member, or lacks the expected data. *)
FetchResponses ==
  {[status |-> st, body |-> "nodata"] : st \in {NetworkFailure, 403, 429, 500}}
    \cup {[status |-> 200, body |-> b] : b \in {"data", "errors", "nodata"}}

(* response.ok *)
HttpOk(status) == status \in 200..299

(* What the body of a successful response leads to.  "errors": it has a
   GraphQL errors member; "nodata": data, or data.questionSubmissionList, is
   missing; "nodetails": submissionDetails is null; these three raise an
   error on which needsPause is set.  "notjson": response.json() rejects;
   "nosubmissions": questionSubmissionList has no submissions member, so
   submissions.filter raises a TypeError; "noquestion": the details have
   code and no question member, so details.question.questionId raises a
   TypeError; on these three errors nothing sets needsPause.  "data",
   "empty" (no accepted submission) and "nocode" raise nothing. *)
bodyError(body) ==
  CASE body \in {"errors", "nodata", "nodetails"} -> "pause"
    [] body \in {"notjson", "nosubmissions", "noquestion"} -> "perm"
    [] OTHER -> "none"

(* callError with the test of lines 171-173 and 309-310 reduced to 429. *)
callErrorOnly429(resp) ==
  IF resp.status = NetworkFailure THEN "perm"
  ELSE IF ~HttpOk(resp.status)
       THEN (IF resp.status = 429 THEN "pause" ELSE "perm")
  ELSE bodyError(resp.body)

(* leetcode-service.js lines 168-200 and 306-345: the error one call
   raises: "none", "pause" (an error with needsPause) or "perm" (an error
   without it). *)
callError(resp) ==
  IF resp.status = NetworkFailure THEN "perm"
  ELSE IF ~HttpOk(resp.status)
       THEN (IF resp.status = 429 \/ resp.status >= 500 THEN "pause" ELSE "perm")
  ELSE bodyError(resp.body)

responseOk(resp) == callError(resp) = "none"

needsPause(resp) == callError(resp) = "pause"

OutcomeOf(resp) == IF needsPause(resp) THEN "pause" ELSE "perm"

(* ---------------- LeetCodeService.getSubmissionsByLanguage ---------------- *)

Statuses == {NetworkFailure, 200, 301, 403, 404, 429, 499, 500, 503}

ListBodies == {"data", "empty", "errors", "nodata", "nosubmissions", "notjson"}

DetailBodies ==
  {"data", "nocode", "errors", "nodata", "nodetails", "noquestion", "notjson"}

(* The body of a response that is not successful is not read. *)
Responses(bodies) ==
  {[status |-> st, body |-> "unread"] : st \in {x \in Statuses : ~HttpOk(x)}}
    \cup {[status |-> st, body |-> b] : st \in {x \in Statuses : HttpOk(x)}, b \in bodies}

NotFetched == [done |-> FALSE, error |-> "none", langs |-> {}]

(* Lines 234-361: the detail calls, one language after the other; the
   i-th language is returned when its details have code. *)
RECURSIVE getDetails(_, _, _)
getDetails(details, i, langs) ==
  IF i > Len(details) THEN [done |-> TRUE, error |-> "none", langs |-> langs]
  ELSE IF callError(details[i]) # "none"
       THEN [done |-> TRUE, error |-> callError(details[i]), langs |-> {}]
  ELSE getDetails(details, i + 1,
                  IF details[i].body = "nocode" THEN langs ELSE langs \cup {i})

getSubmissionsByLanguage(list, details) ==
  IF callError(list) # "none"
  THEN [done |-> TRUE, error |-> callError(list), langs |-> {}]
  ELSE IF list.body = "empty"
  THEN [done |-> TRUE, error |-> "none", langs |-> {}]
  ELSE getDetails(details, 1, {})

(* Lines 202-232: the submission of each language that is fetched in
   detail. A submission is its language, its timestamp as the decimal
   string the list carries, and its status; its id is its place in the
   list. *)
SubmissionLangs == {"python3", "javascript"}
Timestamps == {<<1>>, <<2>>, <<0, 2>>}
SubmissionStatuses == {10, 11}

NoSubmission == [id |-> 0, timestamp |-> 0]
NotRetained == [l \in SubmissionLangs |-> [id |-> -1, timestamp |-> -1]]

(* parseInt of a string of decimal digits *)
RECURSIVE parseInt(_)
parseInt(digits) ==
  IF digits = <<>> THEN 0
  ELSE 10 * parseInt(SubSeq(digits, 1, Len(digits) - 1)) + digits[Len(digits)]

(* the loop of lines 217-232 with >= in place of > at line 223 *)
RECURSIVE mostRecentKeepsLast(_, _, _)
mostRecentKeepsLast(subs, i, byLang) ==
  IF i > Len(subs) THEN byLang
  ELSE IF subs[i].status # 10 THEN mostRecentKeepsLast(subs, i + 1, byLang)
  ELSE LET lang == subs[i].lang
           timestamp == parseInt(subs[i].timestamp)
       IN IF byLang[lang] = NoSubmission \/ timestamp >= byLang[lang].timestamp
          THEN mostRecentKeepsLast(subs, i + 1,
                 [byLang EXCEPT ![lang] = [id |-> i, timestamp |-> timestamp]])
          ELSE mostRecentKeepsLast(subs, i + 1, byLang)

(* The filter of lines 206-208 and the loop of lines 217-232, from the
   i-th submission on. *)
RECURSIVE mostRecent(_, _, _)
mostRecent(subs, i, byLang) ==
  IF i > Len(subs) THEN byLang
  ELSE IF subs[i].status # 10 THEN mostRecent(subs, i + 1, byLang)
  ELSE LET lang == subs[i].lang
           timestamp == parseInt(subs[i].timestamp)
       IN IF byLang[lang] = NoSubmission \/ timestamp > byLang[lang].timestamp
          THEN mostRecent(subs, i + 1,
                 [byLang EXCEPT ![lang] = [id |-> i, timestamp |-> timestamp]])
          ELSE mostRecent(subs, i + 1, byLang)

(* The most recent submission of each language has been picked. *)
Retain ==
  /\ submissionsByLang = NotRetained
  /\ submissionsByLang' =
       mostRecent(submissions, 1, [l \in SubmissionLangs |-> NoSubmission])
  /\ UNCHANGED <<listResponse, detailResponses, fetched, submissions>>
  /\ UNCHANGED routeVars
  /\ UNCHANGED syncVars
  /\ UNCHANGED submitVars

(* One call of getSubmissionsByLanguage settles. *)
Fetch ==
  /\ ~fetched.done
  /\ fetched' = getSubmissionsByLanguage(listResponse, detailResponses)
  /\ UNCHANGED <<listResponse, detailResponses, submissions, submissionsByLang>>
  /\ UNCHANGED routeVars
  /\ UNCHANGED syncVars
  /\ UNCHANGED submitVars

(* ---------------- SyncService.startSync ---------------- *)

(* Lines 87-98: the final status is computed and its write is issued. *)
finalize(S, r) ==
  LET allProcessed == S.stats.processed = S.stats.total
  IN [S EXCEPT !.result[r] = [success |-> allProcessed,
                              status |-> IF allProcessed THEN "success" ELSE "partial"],
               !.pc[r] = "final"]

(* waitForGithubQueueCompletion: one evaluation of the loop condition. *)
queueBusy(S) == Len(S.githubQueue) > 0 \/ S.githubProcessing

(* What startSync does right after processProblemsQueue has resolved. *)
Settle(S, r) ==
  IF S.pc[r] # "resolved" THEN S
  ELSE IF queueBusy(S) THEN [S EXCEPT !.pc[r] = "drain"]
  ELSE finalize(S, r)

(* processProblemsQueue up to the end of the initial batch. *)
processProblemsQueue(S, r, problems) ==
  LET S1 == [S EXCEPT !.nextIndex[r] = 0, !.isPaused[r] = FALSE,
                      !.problemsToProcess[r] = problems,
                      !.pauseTimer[r] = "null", !.lateTrigger[r] = FALSE,
                      !.pc[r] = "queue"]
  IN startNextProblems(S1, r, Min(maxParallel, Len(problems)))

(* Lines 79-83. *)
solvedListed(S, r, problems) ==
  processProblemsQueue([S EXCEPT !.stats.total = Len(problems)], r, problems)

(* StartSync with the reset of lines 61-76 moved before the guard. *)
StartSyncResetsFirst(r) ==
  /\ pc[r] = "idle"
  /\ \A q \in Runs : q < r => pc[q] # "idle"
  /\ LET S1 == [St EXCEPT !.stats = ZeroStats,
                          !.activePromises = {},
                          !.failedProblems = <<>>,
                          !.retryCount = 0,
                          !.githubQueue = <<>>,
                          !.githubProcessing = FALSE]
     IN IF store.inProgress
        THEN Commit([S1 EXCEPT !.result[r] = [success |-> FALSE, status |-> "rejected"],
                               !.pc[r] = "ctrl"])
        ELSE Commit([S1 EXCEPT !.pc[r] = "set"])

(* Lines 43-59: the in-progress guard; a start that passes it issues the
   write of the in-progress flags. *)
StartSync(r) ==
  /\ pc[r] = "idle"
  /\ \A q \in Runs : q < r => pc[q] # "idle"
  /\ IF store.inProgress
     THEN Commit([St EXCEPT !.result[r] = [success |-> FALSE, status |-> "rejected"],
                            !.pc[r] = "ctrl"])
     ELSE Commit([St EXCEPT !.pc[r] = "set"])

(* Lines 54-79: the flags are written, the service state is reset and the
   solved list is asked for (answered from the cache when there is one). *)
StartWritten(r) ==
  /\ pc[r] = "set"
  /\ LET S1 == [St EXCEPT !.store = [inProgress |-> TRUE, status |-> "in_progress"],
                          !.isSyncing = TRUE,
                          !.stats = ZeroStats,
                          !.activePromises = {},
                          !.failedProblems = <<>>,
                          !.retryCount = 0,
                          !.githubQueue = <<>>,
                          !.githubProcessing = FALSE,
                          !.starts = @ + 1]
     IN IF ~cachedProblems.isNull
        THEN Commit(Settle(solvedListed(S1, r, cachedProblems.list), r))
        ELSE Commit([S1 EXCEPT !.pc[r] = "listing"])

(* leetcode-service.js lines 64-84, then sync-service.js lines 80-83 or
   the catch of lines 113-120. *)
SolvedProblemsAnsweredBy(r, statuses) ==
  /\ pc[r] = "listing"
  /\ \E status \in statuses :
       IF status = 200 /\ userLoggedIn
       THEN Commit(Settle(solvedListed([St EXCEPT !.cachedProblems = [isNull |-> FALSE, list |-> solved]], r, solved), r))
       ELSE Commit([St EXCEPT !.result[r] = [success |-> FALSE, status |-> "failed"],
                              !.pc[r] = "failset"])

SolvedProblemsAnswered(r) == SolvedProblemsAnsweredBy(r, {200, 500})

(* Lines 115-134: the write of the failed status has been answered. *)
FailureWritten(r) ==
  /\ pc[r] = "failset"
  /\ Commit([St EXCEPT !.store = [inProgress |-> FALSE, status |-> "failed"],
                       !.isSyncing = FALSE,
                       !.pc[r] = "ctrl"])

(* waitForGithubQueueCompletion wakes from its sleep and finds the queue idle. *)
QueueDrained(r) ==
  /\ pc[r] = "drain"
  /\ ~queueBusy(St)
  /\ Commit(finalize(St, r))

(* Lines 91-112: the terminal status has been written; startSync returns. *)
FinalWritten(r) ==
  /\ pc[r] = "final"
  /\ Commit([St EXCEPT !.store = [inProgress |-> FALSE, status |-> result[r].status],
                       !.isSyncing = FALSE,
                       !.pc[r] = "ctrl"])

(* background.js lines 294-309: the controller writes the flags again from
   the result object, whatever the result is. *)
ControllerWritten(r) ==
  /\ pc[r] = "ctrl"
  /\ Commit([St EXCEPT !.store = [inProgress |-> FALSE,
                                  status |-> IF result[r].success THEN "success" ELSE "failed"],
                       !.pc[r] = "done"])

(* ---------------- workers, write queue and timers ---------------- *)

(* getSubmissionsByLanguage has settled for worker w: the list call was
   answered by resp, the detail calls (if any) by dresp, and found are the
   languages in found. *)
SubmissionsAnsweredBy(w, responses) ==
  /\ workers[w].phase = "fetch"
  /\ LET r == workers[w].run
         p == workers[w].problem
     IN \E resp \in responses :
          LET S0 == St
          IN IF ~responseOk(resp)
             THEN Commit(Settle(processProblemFailed(S0, w, needsPause(resp), OutcomeOf(resp)), r))
             ELSE IF accepted[p] = {}
             THEN Commit(Settle(nextLanguage(S0, w), r))
             ELSE \E dresp \in responses :
                    IF ~responseOk(dresp)
                    THEN Commit(Settle(processProblemFailed(
                           S0, w, needsPause(dresp), OutcomeOf(dresp)), r))
                    ELSE Commit(Settle(nextLanguage(
                           [S0 EXCEPT !.workers[w].langs = accepted[p]], w), r))

SubmissionsAnswered(w) == SubmissionsAnsweredBy(w, FetchResponses)

(* File with the suffix that buildGitHubUrl adds outside bulk mode (lines
   931-934): a name that differs from one session to the next. *)
FilePerSession(op) == <<op.problem, op.lang + workers[op.w].run - 1>>

(* github-service.js lines 927-946, buildGitHubUrl(true): the path of the
   file of a problem in a language; it does not depend on the time or on
   the session. *)
File(op) == <<op.problem, op.lang>>

(* operationThrew without the try of lines 170-175: the error leaves the
   while loop, which ends with githubProcessing still set. *)
operationThrewStopsLoop(S, l) ==
  processProblemFailed([S EXCEPT !.loops[l] = NoLoop], S.loops[l].op.w, FALSE, "werr")

(* Lines 173-178: the running operation threw; its caller's promise is
   rejected (which fails that caller's processProblem) and the loop goes on
   to its sleep. *)
operationThrew(S, l) ==
  processProblemFailed([S EXCEPT !.loops[l] = [phase |-> "sleep"]],
                       S.loops[l].op.w, FALSE, "werr")

(* sync-service.js lines 399-412 with checkFileExistence: the GET of the
   running operation has been answered. *)
ExistenceAnsweredBy(l, statuses) ==
  /\ loops[l].phase = "check"
  /\ \E status \in statuses :
       LET op == loops[l].op
           r == workers[op.w].run
       IN /\ status = 200 => File(op) \in repo
          /\ status = 404 => File(op) \notin repo
          /\ IF status = 200
             THEN Commit(Settle(operationResolved(
                    [St EXCEPT !.loops[l] = [phase |-> "sleep"]], op.w, FALSE), r))
             ELSE IF status = 404
             THEN Commit([St EXCEPT !.loops[l].phase = "create"])
             ELSE Commit(Settle(operationThrew(St, l), r))

ExistenceAnswered(l) == ExistenceAnsweredBy(l, {200, 404, 403, NetworkFailure})

(* createFile(true): the PUT of the running operation has been answered. *)
CreateAnsweredBy(l, statuses) ==
  /\ loops[l].phase = "create"
  /\ \E status \in statuses :
       LET op == loops[l].op
           r == workers[op.w].run
           S1 == [St EXCEPT !.loops[l] = [phase |-> "sleep"]]
       IN /\ status = 201 => File(op) \notin repo
          /\ status = 422 => File(op) \in repo
          /\ IF status = 201
             THEN Commit(Settle(operationResolved(
                    [S1 EXCEPT !.repo = @ \cup {File(op)},
                               !.puts = @ + 1,
                               !.workers[op.w].written = @ + 1], op.w, TRUE), r))
             ELSE IF status = 422
             THEN Commit(Settle(operationResolved(S1, op.w, TRUE), r))
             ELSE Commit(Settle(operationThrew(St, l), r))

CreateAnswered(l) == CreateAnsweredBy(l, {201, 422, 403, NetworkFailure})

(* processGithubQueue after its 100 ms sleep: next operation, or the end
   of the loop. *)
QueueWake(l) ==
  /\ loops[l].phase = "sleep"
  /\ IF Len(githubQueue) > 0
     THEN Commit([St EXCEPT !.loops[l] = [phase |-> "check", op |-> Head(githubQueue)],
                            !.githubQueue = Tail(githubQueue)])
     ELSE Commit([St EXCEPT !.loops[l] = NoLoop, !.githubProcessing = FALSE])

(* A timer set by pauseAndScheduleResume expires. *)
ResumeTimerFired(r) ==
  /\ armed[r]["resume"] > 0
  /\ Commit(Settle(resumeSync([St EXCEPT !.armed[r]["resume"] = @ - 1], r), r))

(* A timer set at the start of a retry round expires. *)
RetryTimerFired(r) ==
  /\ armed[r]["retry"] > 0
  /\ Commit(Settle(retryResume([St EXCEPT !.armed[r]["retry"] = @ - 1], r), r))

(* ---------------- GithubService.submitToGitHub ---------------- *)

(* Text is a sequence of characters; a word that holds no white space and
   that no operation splits stands as one element. *)
Calls == 1..MaxCalls
Paths == 0..(MaxClock + 1)

WhiteSpace == {" ", "\n", "\r", "\t"}
NotLatin1 == {"U+03BB"}

RECURSIVE trimStart(_)
trimStart(s) == IF s # <<>> /\ Head(s) \in WhiteSpace THEN trimStart(Tail(s)) ELSE s

RECURSIVE trimEnd(_)
trimEnd(s) ==
  IF s # <<>> /\ s[Len(s)] \in WhiteSpace THEN trimEnd(SubSeq(s, 1, Len(s) - 1)) ELSE s

trim(s) == trimEnd(trimStart(s))

(* replace(/\r\n/g, "\n") *)
RECURSIVE replaceCRLF(_)
replaceCRLF(s) ==
  IF s = <<>> THEN <<>>
  ELSE IF Len(s) >= 2 /\ s[1] = "\r" /\ s[2] = "\n"
       THEN <<"\n">> \o replaceCRLF(SubSeq(s, 3, Len(s)))
       ELSE <<Head(s)>> \o replaceCRLF(Tail(s))

(* replace(/\s+/g, " ") *)
RECURSIVE collapseSpace(_)
collapseSpace(s) ==
  IF s = <<>> THEN <<>>
  ELSE IF Head(s) \in WhiteSpace
       THEN <<" ">> \o collapseSpace(trimStart(s))
       ELSE <<Head(s)>> \o collapseSpace(Tail(s))

normalize(content) == collapseSpace(replaceCRLF(trim(content)))

contentsDiffer(currentContent, newContent) ==
  normalize(currentContent) # normalize(newContent)

(* split("\n") *)
RECURSIVE split(_)
split(s) ==
  IF \A i \in 1..Len(s) : s[i] # "\n" THEN <<s>>
  ELSE LET i == CHOOSE k \in 1..Len(s) :
                  s[k] = "\n" /\ \A j \in 1..(k - 1) : s[j] # "\n"
       IN <<SubSeq(s, 1, i - 1)>> \o split(SubSeq(s, i + 1, Len(s)))

getCommentFormat(extension) ==
  CASE extension = ".py" ->
         [line |-> <<"#">>, start |-> <<"'''">>, end |-> <<"'''">>, linePrefix |-> <<>>]
    [] extension = ".erl" ->
         [line |-> <<"%">>, start |-> <<"%%", " ", "---">>,
          end |-> <<"%%", " ", "---">>, linePrefix |-> <<"%%", " ">>]
    [] OTHER ->
         [line |-> <<"//">>, start |-> <<"/*">>, end |-> <<"*/">>,
          linePrefix |-> <<" ", "*", " ">>]

(* new Date().toLocaleString(): the date and the time of day to the second *)
toLocaleString(t) == <<"11/3/2026,", " ", ToString(t), " ", "AM">>

RECURSIVE commentLines(_, _)
commentLines(lines, linePrefix) ==
  IF lines = <<>> THEN <<>>
  ELSE linePrefix \o Head(lines) \o <<"\n">> \o commentLines(Tail(lines), linePrefix)

NoText == [threw |-> TRUE, text |-> <<>>]

(* getFormattedCode, called when the clock reads t *)
getFormattedCode(prob, cmt, t) ==
  IF prob.code = <<>> THEN NoText
  ELSE LET commentFormat == getCommentFormat(prob.extension)
           stamp == commentFormat.line \o <<" ", "Last", " ", "updated:", " ">>
                      \o toLocaleString(t) \o <<"\n">>
           header ==
             IF trim(cmt) = <<>> THEN stamp
             ELSE IF \E i \in 1..Len(cmt) : cmt[i] = "\n"
                  THEN stamp \o commentFormat.start \o <<"\n">>
                         \o commentLines(split(cmt), commentFormat.linePrefix)
                         \o commentFormat.end \o <<"\n", "\n">>
                  ELSE stamp \o commentFormat.line \o <<" ">> \o cmt \o <<"\n">>
       IN [threw |-> FALSE, text |-> header \o prob.code]

(* btoa throws on a character outside Latin-1; the repository stores the
   bytes, and atob of what a lookup returns gives them back. *)
btoa(text) ==
  IF text.threw \/ \E i \in 1..Len(text.text) : text.text[i] \in NotLatin1
  THEN [threw |-> TRUE, base64 |-> <<>>]
  ELSE [threw |-> FALSE, base64 |-> text.text]

atob(content) == content

(* buildGitHubUrl(false): the plain path, or a versioned path named after the
   clock when multiple submissions are kept *)
buildGitHubUrl(t) == IF settings.multiple THEN 1 + t ELSE 0

NoFile == [exists |-> FALSE, content |-> <<>>, sha |-> 0]
NoBody == [content |-> <<>>, sha |-> 0]
NoLookup == [status |-> 0, returned |-> "none"]
NoResponse == [status |-> 0, alreadyExists |-> FALSE]
NoCall == [pc |-> "idle", prob |-> [code |-> <<>>, extension |-> "", description |-> FALSE],
           cmt |-> <<>>, path |-> 0, fileExists |-> NoFile, newContent |-> <<>>,
           body |-> NoBody, outcome |-> "", successive |-> FALSE, looked |-> 0, put |-> 0,
           response |-> NoResponse, lookup |-> NoLookup]

(* The problems a page submits: code with LF and with CRLF line ends, no
   code at all, and code with a character outside Latin-1. *)
Submitted ==
  {[code |-> <<"a", "\n", "b">>, extension |-> ".py", description |-> FALSE],
   [code |-> <<"a", "\r", "\n", "b">>, extension |-> ".js", description |-> TRUE],
   [code |-> <<>>, extension |-> ".js", description |-> TRUE],
   [code |-> <<"U+03BB">>, extension |-> ".erl", description |-> FALSE]}

Comments == {<<>>, <<" ">>, <<"n">>, <<"n", "\n", "m">>}

(* the finally block of submitToGitHub *)
Finish(c, outcome) ==
  /\ submissionInProgress' = FALSE
  /\ call' = [call EXCEPT ![c].pc = "done", ![c].outcome = outcome]

(* createFile() up to its PUT *)
createFile(c, lookedUp) ==
  LET codeBody == btoa(getFormattedCode(thisProblem, thisComment, now))
  IN IF codeBody.threw
     THEN /\ submissionInProgress' = FALSE
          /\ call' = [lookedUp EXCEPT ![c].pc = "done", ![c].outcome = "error"]
     ELSE /\ call' = [lookedUp EXCEPT ![c].pc = "create", ![c].put = @ + 1,
                                      ![c].path = buildGitHubUrl(now),
                                      ![c].body = [content |-> codeBody.base64, sha |-> 0]]
          /\ UNCHANGED submissionInProgress

(* updateFile(existingFile) up to its PUT *)
updateFile(c, existingFile) ==
  LET content == btoa(getFormattedCode(thisProblem, thisComment, now))
  IN IF content.threw
     THEN Finish(c, "error")
     ELSE /\ call' = [call EXCEPT ![c].pc = "update", ![c].put = @ + 1,
                                  ![c].path = buildGitHubUrl(now),
                                  ![c].body = [content |-> content.base64,
                                               sha |-> existingFile.sha]]
          /\ UNCHANGED submissionInProgress

(* submitToGitHub(problem, comment) is called: it awaits init(). *)
SubmitToGitHub(c) ==
  /\ call[c].pc = "idle"
  /\ \A d \in Calls : d < c => call[d].pc # "idle"
  /\ \E prob \in Submitted, cmt \in Comments :
       call' = [call EXCEPT ![c].pc = "init", ![c].prob = prob, ![c].cmt = cmt,
                            ![c].successive = \A d \in Calls : d < c => call[d].pc = "done"]
  /\ UNCHANGED <<now, files, settings, submissionInProgress, thisProblem, thisComment,
                 writes, statsUpdates>>
  /\ UNCHANGED syncVars
  /\ UNCHANGED fetchVars
  /\ UNCHANGED routeVars

(* init() has answered: the guard, then checkFileExistence's GET. *)
InitAnswered(c) ==
  /\ call[c].pc = "init"
  /\ thisProblem' = call[c].prob
  /\ thisComment' = call[c].cmt
  /\ IF submissionInProgress \/ ~settings.configValid
     THEN /\ call' = [call EXCEPT ![c].pc = "done", ![c].outcome = "ignored"]
          /\ UNCHANGED submissionInProgress
     ELSE /\ submissionInProgress' = TRUE
          /\ call' = [call EXCEPT ![c].pc = "check", ![c].looked = @ + 1,
                                  ![c].path = buildGitHubUrl(now)]
  /\ UNCHANGED <<now, files, settings, writes, statsUpdates>>
  /\ UNCHANGED syncVars
  /\ UNCHANGED fetchVars
  /\ UNCHANGED routeVars

LookupStatuses == {200, 404, 403, 500}

(* checkFileExistence with its 404 branch taken on every response that is
   not ok. *)
checkFileExistenceNullOnFailure(status, file) ==
  IF HttpOk(status) THEN [returned |-> "file", value |-> file]
  ELSE [returned |-> "null", value |-> NoFile]

(* Lines 741-754 of checkFileExistence: the parsed body when the response
   is ok, null on 404, an error thrown on any other status. *)
checkFileExistence(status, file) ==
  IF HttpOk(status) THEN [returned |-> "file", value |-> file]
  ELSE IF status = 404 THEN [returned |-> "null", value |-> NoFile]
  ELSE [returned |-> "threw", value |-> NoFile]

(* The lookup has answered; the answer and what checkFileExistence made
   of it are kept in lookup. *)
ExistenceChecked(c) ==
  /\ call[c].pc = "check"
  /\ \E status \in LookupStatuses :
       LET found == checkFileExistence(status, files[call[c].path])
           fileExists == found.value
           lookedUp == [call EXCEPT ![c].fileExists = fileExists,
                                    ![c].lookup = [status |-> status,
                                                   returned |-> found.returned]]
       IN /\ status = 200 => files[call[c].path].exists
          /\ status = 404 => ~files[call[c].path].exists
          /\ IF found.returned = "threw"
             THEN /\ submissionInProgress' = FALSE
                  /\ call' = [lookedUp EXCEPT ![c].pc = "done", ![c].outcome = "error"]
             ELSE IF fileExists.exists /\ ~settings.multiple
             THEN LET newContent == getFormattedCode(thisProblem, thisComment, now)
                  IN IF newContent.threw
                     THEN /\ submissionInProgress' = FALSE
                          /\ call' = [lookedUp EXCEPT ![c].pc = "done",
                                                      ![c].outcome = "error"]
                     ELSE /\ call' = [lookedUp EXCEPT ![c].pc = "config",
                                                      ![c].newContent = newContent.text]
                          /\ UNCHANGED submissionInProgress
             ELSE createFile(c, lookedUp)
  /\ UNCHANGED <<now, files, settings, thisProblem, thisComment, writes, statsUpdates>>
  /\ UNCHANGED syncVars
  /\ UNCHANGED fetchVars
  /\ UNCHANGED routeVars

(* The skip-duplicates setting has been read. *)
ConfigAnswered(c) ==
  /\ call[c].pc = "config"
  /\ LET currentContent == atob(call[c].fileExists.content)
         skipDuplicates == settings.skipDuplicates
         contentIsSame == ~contentsDiffer(currentContent, call[c].newContent)
     IN IF skipDuplicates /\ contentIsSame
        THEN Finish(c, "skipped")
        ELSE updateFile(c, call[c].fileExists)
  /\ UNCHANGED <<now, files, settings, thisProblem, thisComment, writes, statsUpdates>>
  /\ UNCHANGED syncVars
  /\ UNCHANGED fetchVars
  /\ UNCHANGED routeVars

(* The PUT of updateFile has answered: accepted only with the current sha. *)
UpdateAnswered(c) ==
  /\ call[c].pc = "update"
  /\ \E ok \in BOOLEAN :
       LET file == files[call[c].path]
       IN IF ok /\ file.exists /\ file.sha = call[c].body.sha
          THEN /\ files' = [files EXCEPT ![call[c].path] =
                              [exists |-> TRUE, content |-> call[c].body.content,
                               sha |-> file.sha + 1]]
               /\ writes' = writes + 1
               /\ Finish(c, "updated")
          ELSE /\ Finish(c, "error")
               /\ UNCHANGED <<files, writes>>
  /\ UNCHANGED <<now, settings, thisProblem, thisComment, statsUpdates>>
  /\ UNCHANGED syncVars
  /\ UNCHANGED fetchVars
  /\ UNCHANGED routeVars

(* Lines 648-663 of createFile, with every 422 taken for "already exists". *)
createFailedAny422(status, alreadyExists) ==
  IF status = 422 THEN "exists" ELSE "error"

(* Lines 648-663 of createFile: the response is not ok; a 422 whose message
   includes "already exists" is returned, anything else is thrown. *)
createFailed(status, alreadyExists) ==
  IF status = 422 /\ alreadyExists THEN "exists" ELSE "error"

(* The PUT of createFile has answered; the answer is kept in response. *)
SubmitCreateAnswered(c) ==
  /\ call[c].pc = "create"
  /\ \E status \in {201, 422, 403}, alreadyExists \in BOOLEAN :
       LET file == files[call[c].path]
           answered == [call EXCEPT ![c].response =
                          [status |-> status, alreadyExists |-> alreadyExists]]
       IN /\ status = 201 => ~file.exists
          /\ status = 422 <=> file.exists
          /\ alreadyExists => status = 422
          /\ IF status = 201
             THEN /\ files' = [files EXCEPT ![call[c].path] =
                                 [exists |-> TRUE, content |-> call[c].body.content,
                                  sha |-> 1]]
                  /\ writes' = writes + 1
                  /\ IF thisProblem.description
                     THEN /\ call' = [answered EXCEPT ![c].pc = "readme"]
                          /\ UNCHANGED <<submissionInProgress, statsUpdates>>
                     ELSE /\ statsUpdates' = statsUpdates + 1
                          /\ submissionInProgress' = FALSE
                          /\ call' = [answered EXCEPT ![c].pc = "done",
                                                      ![c].outcome = "created"]
             ELSE /\ submissionInProgress' = FALSE
                  /\ call' = [answered EXCEPT
                                ![c].pc = "done",
                                ![c].outcome = createFailed(status, alreadyExists)]
                  /\ UNCHANGED <<files, writes, statsUpdates>>
  /\ UNCHANGED <<now, settings, thisProblem, thisComment>>
  /\ UNCHANGED syncVars
  /\ UNCHANGED fetchVars
  /\ UNCHANGED routeVars

(* The PUT of the README has answered, with whatever status. *)
ReadmeAnswered(c) ==
  /\ call[c].pc = "readme"
  /\ statsUpdates' = statsUpdates + 1
  /\ Finish(c, "created")
  /\ UNCHANGED <<now, files, settings, thisProblem, thisComment, writes>>
  /\ UNCHANGED syncVars
  /\ UNCHANGED fetchVars
  /\ UNCHANGED routeVars

(* A second passes. *)
Tick ==
  /\ now < MaxClock
  /\ now' = now + 1
  /\ UNCHANGED <<files, settings, submissionInProgress, thisProblem, thisComment,
                 call, writes, statsUpdates>>
  /\ UNCHANGED syncVars
  /\ UNCHANGED fetchVars
  /\ UNCHANGED routeVars

(* ---------------- specifications ---------------- *)

SolvedLists == {[i \in 1..n |-> i] : n \in 0..MaxBacklog}

InitCommon ==
  /\ store = [inProgress |-> FALSE, status |-> ""]
  /\ stats = ZeroStats
  /\ failedProblems = <<>>
  /\ retryCount = 0
  /\ activePromises = {}
  /\ isSyncing = FALSE
  /\ githubQueue = <<>>
  /\ githubProcessing = FALSE
  /\ cachedProblems = [isNull |-> TRUE, list |-> <<>>]
  /\ nextIndex = [r \in Runs |-> 0]
  /\ isPaused = [r \in Runs |-> FALSE]
  /\ problemsToProcess = [r \in Runs |-> <<>>]
  /\ pauseTimer = [r \in Runs |-> "null"]
  /\ armed = [r \in Runs |-> [resume |-> 0, retry |-> 0]]
  /\ pc = [r \in Runs |-> "idle"]
  /\ result = [r \in Runs |-> NoResult]
  /\ workers = [w \in Slots |-> NoWorker]
  /\ loops = [l \in Loops |-> NoLoop]
  /\ hist = [p \in Problems |-> <<>>]
  /\ tally = [p \in Problems |-> [processed |-> 0, failed |-> 0]]
  /\ starts = 0
  /\ puts = 0
  /\ lateTrigger = [r \in Runs |-> FALSE]

(* The inputs of a session: whether the user is logged in, the solved list,
   which problems have accepted submissions with code, and the files already
   in the repository.  Backlogs longer than MaxWithCode have no code to
   write (every problem of theirs ends as skipped, failed or deferred). *)
Inputs(longest, longestWithCode) ==
  /\ userLoggedIn \in BOOLEAN
  /\ solved \in SolvedLists
  /\ Len(solved) <= longest
  /\ accepted \in [Problems -> SUBSET Langs]
  /\ \A p \in Problems \ Range(solved) : accepted[p] = {}
  /\ Len(solved) > longestWithCode => \A p \in Problems : accepted[p] = {}
  /\ repo \in SUBSET {f \in Problems \X Langs : f[2] \in accepted[f[1]]}

(* No list of submissions is looked at by itself. *)
RetainIdle ==
  /\ submissions = <<>>
  /\ submissionsByLang = NotRetained

(* No call of getSubmissionsByLanguage is looked at by itself. *)
FetchIdle ==
  /\ listResponse = [status |-> 200, body |-> "data"]
  /\ detailResponses = <<>>
  /\ fetched = NotFetched
  /\ RetainIdle

(* No submission from a problem page takes place during a bulk session. *)
SubmitIdle ==
  /\ FetchIdle
  /\ now = 0
  /\ files = [f \in Paths |-> NoFile]
  /\ settings = [configValid |-> TRUE, skipDuplicates |-> TRUE, multiple |-> FALSE]
  /\ submissionInProgress = FALSE
  /\ thisProblem = NoCall.prob
  /\ thisComment = <<>>
  /\ call = [c \in Calls |-> NoCall]
  /\ writes = 0
  /\ statsUpdates = 0

(* ---------------- the route observer of a problem page ---------------- *)

MaxNavigations == 3

(* The pages the user moves between: the problem list, three problems, a
   tab of one of them, and a problem inside a contest. *)
Pages ==
  { <<"problemset">>,
    <<"problems", "two-sum">>,
    <<"problems", "two-sum", "submissions">>,
    <<"problems", "lru-cache">>,
    <<"problems", "3sum">>,
    <<"contest", "weekly", "problems", "two-sum">> }

(* RouteService.extractProblemSlugFromUrl: the segment after the first
   "/problems/" anywhere in the pathname, or null. *)
extractProblemSlugFromUrl(pathname) ==
  LET at == {i \in 1..(Len(pathname) - 1) : pathname[i] = "problems"}
  IN IF at = {}
     THEN "null"
     ELSE pathname[(CHOOSE i \in at : \A j \in at : i <= j) + 1]

(* Problem.getDescriptionUrl finds a problem only in an address that goes on
   with "/problems/" right after the host. *)
ProblemPage(pathname) == Len(pathname) >= 2 /\ pathname[1] = "problems"

(* Problem.loadProblemFromDOM: the problem name is taken from the address
   of the page shown; on any other page the problem is left as it was. *)
loadProblemFromDOM(old, pathname) ==
  IF ProblemPage(pathname) THEN pathname[2] ELSE old

(* Neither a mutation record nor a timer of the route service is pending. *)
AtRest == ~records /\ routeTimers = 0

(* new LeetcodeTracker() on the page shown: the route service notes the
   slug and connects its observer, and init() loads the problem. *)
RouteConstructed(page) ==
  /\ location = page
  /\ problemSlug = extractProblemSlugFromUrl(page)
  /\ observing = TRUE
  /\ records = FALSE
  /\ routeTimers = 0
  /\ problemUrl = loadProblemFromDOM("", page)
  /\ visits = 0
  /\ navigations = 0
  /\ invocations = 0
  /\ spaced = ProblemPage(page)

RouteIdle == RouteConstructed(<<"problems", "two-sum">>)

(* The user moves to another page of the site; the page is redrawn, which
   queues mutation records for an observer that is connected. *)
Navigate(page) ==
  /\ visits < MaxNavigations
  /\ page # location
  /\ location' = page
  /\ records' = observing
  /\ visits' = visits + 1
  /\ navigations' = IF ProblemPage(location) /\ ProblemPage(page) /\ page[2] # location[2]
                    THEN navigations + 1
                    ELSE navigations
  /\ spaced' = (spaced /\ AtRest /\ ProblemPage(page))
  /\ UNCHANGED <<problemSlug, observing, routeTimers, problemUrl, invocations>>
  /\ UNCHANGED <<syncVars, submitVars, fetchVars>>

(* The page changes without a navigation. *)
DomChanged ==
  /\ observing
  /\ ~records
  /\ records' = TRUE
  /\ UNCHANGED <<location, problemSlug, observing, routeTimers, problemUrl, visits,
                 navigations, invocations, spaced>>
  /\ UNCHANGED <<syncVars, submitVars, fetchVars>>

(* The callback of the MutationObserver in observeUrlChanges. *)
MutationObserved ==
  /\ records
  /\ records' = FALSE
  /\ IF problemSlug # extractProblemSlugFromUrl(location)
     THEN /\ observing' = FALSE
          /\ problemSlug' = extractProblemSlugFromUrl(location)
          /\ routeTimers' = routeTimers + 1
     ELSE UNCHANGED <<observing, problemSlug, routeTimers>>
  /\ UNCHANGED <<location, problemUrl, visits, navigations, invocations, spaced>>
  /\ UNCHANGED <<syncVars, submitVars, fetchVars>>

(* The timer of observeUrlChanges runs onRouteChange, which is the
   tracker's init(). *)
RouteChanged ==
  /\ routeTimers > 0
  /\ routeTimers' = routeTimers - 1
  /\ invocations' = invocations + 1
  /\ problemUrl' = loadProblemFromDOM(problemUrl, location)
  /\ UNCHANGED <<location, problemSlug, observing, records, visits, navigations, spaced>>
  /\ UNCHANGED <<syncVars, submitVars, fetchVars>>

Init == InitCommon /\ RouteIdle /\ Inputs(MaxProblems, MaxWithCode) /\ SubmitIdle

Session ==
  \/ \E r \in Runs : StartWritten(r)
  \/ \E r \in Runs : SolvedProblemsAnswered(r)
  \/ \E r \in Runs : FailureWritten(r)
  \/ \E r \in Runs : QueueDrained(r)
  \/ \E r \in Runs : FinalWritten(r)
  \/ \E r \in Runs : ControllerWritten(r)
  \/ \E w \in Slots : SubmissionsAnswered(w)
  \/ \E l \in Loops : ExistenceAnswered(l)
  \/ \E l \in Loops : CreateAnswered(l)
  \/ \E l \in Loops : QueueWake(l)
  \/ \E r \in Runs : ResumeTimerFired(r)
  \/ \E r \in Runs : RetryTimerFired(r)

(* One start command. *)
Next == StartSync(1) \/ Session

Spec == Init /\ [][Next]_vars

(* Any number of start commands, in any interleaving. *)
InitStarts == InitCommon /\ RouteIdle /\ Inputs(MaxOverlap, MaxOverlap) /\ repo = {} /\ SubmitIdle

NextStarts == (\E r \in Runs : StartSync(r)) \/ Session

SpecStarts == InitStarts /\ [][NextStarts]_vars

(* The user logs out of the problem source. *)
LogOut ==
  /\ userLoggedIn
  /\ userLoggedIn' = FALSE
  /\ UNCHANGED <<store, stats, failedProblems, retryCount, activePromises, isSyncing,
                 githubQueue, githubProcessing, cachedProblems, nextIndex, isPaused,
                 problemsToProcess, pauseTimer, armed, pc, result, workers, loops,
                 repo, solved, accepted, hist, tally, starts, puts, lateTrigger>>
  /\ UNCHANGED submitVars
  /\ UNCHANGED fetchVars
  /\ UNCHANGED routeVars

(* Sessions one after the other through the same SyncService: a start
   command is given once the controller has handled the result of the one
   before; the user may log out at any time. *)
InitSessions ==
  InitCommon /\ RouteIdle /\ Inputs(MaxSessionBacklog, MaxSessionBacklog) /\ repo = {} /\ SubmitIdle

StartNextSession(r) ==
  /\ \A q \in Runs : q < r => pc[q] = "done"
  /\ StartSync(r)

NextSessions ==
  \/ \E r \in Runs : StartNextSession(r)
  \/ Session
  \/ LogOut

SpecSessions == InitSessions /\ [][NextSessions]_vars

(* ---------------- the store fails ---------------- *)

Thrown == [success |-> FALSE, status |-> "threw"]

(* sync-service.js lines 44-45: the read of the in-progress flag fails.
   The await is outside every try of startSync, whose promise is rejected;
   the controller (background.js 310-316) catches it and writes the failed
   status. *)
GuardReadFailed(r) ==
  /\ pc[r] = "idle"
  /\ \A q \in Runs : q < r => pc[q] # "idle"
  /\ Commit([St EXCEPT !.result[r] = Thrown, !.pc[r] = "ctrlcatch"])

(* Lines 54-59: the write of the in-progress status fails, outside every
   try as well. *)
StartWriteFailed(r) ==
  /\ pc[r] = "set"
  /\ Commit([St EXCEPT !.result[r] = Thrown, !.pc[r] = "ctrlcatch"])

(* Lines 90-112: the write of the terminal status fails; the error is
   logged and startSync returns its result. *)
FinalWriteFailed(r) ==
  /\ pc[r] = "final"
  /\ Commit([St EXCEPT !.isSyncing = FALSE, !.pc[r] = "ctrl"])

(* Lines 114-134: the write of the failed status fails; the error is
   logged and startSync returns its result. *)
FailureWriteFailed(r) ==
  /\ pc[r] = "failset"
  /\ Commit([St EXCEPT !.isSyncing = FALSE, !.pc[r] = "ctrl"])

(* background.js lines 296-316: the controller's write fails inside its
   try; its catch writes the failed status. *)
ControllerWriteFailed(r) ==
  /\ pc[r] = "ctrl"
  /\ Commit([St EXCEPT !.pc[r] = "ctrlcatch"])

(* background.js lines 311-321: the write of the catch has been answered;
   the controller returns success false. *)
ControllerCatchWritten(r) ==
  /\ pc[r] = "ctrlcatch"
  /\ Commit([St EXCEPT !.store = [inProgress |-> FALSE, status |-> "failed"],
                       !.pc[r] = "done"])

(* background.js lines 311-316: the write of the catch fails; nothing
   catches it and the promise of the controller's startSync is rejected. *)
ControllerCatchWriteFailed(r) ==
  /\ pc[r] = "ctrlcatch"
  /\ Commit([St EXCEPT !.pc[r] = "threw"])

(* One session in which any read or write of the store may fail. *)
InitStorage ==
  InitCommon /\ RouteIdle /\ Inputs(MaxSessionBacklog, MaxSessionBacklog) /\ SubmitIdle

NextStorage ==
  \/ StartSync(1)
  \/ Session
  \/ GuardReadFailed(1)
  \/ StartWriteFailed(1)
  \/ FinalWriteFailed(1)
  \/ FailureWriteFailed(1)
  \/ ControllerWriteFailed(1)
  \/ ControllerCatchWritten(1)
  \/ ControllerCatchWriteFailed(1)

SpecStorage == InitStorage /\ [][NextStorage]_vars

(* One session in which the user is logged in, every problem has code in
   every language, no file is in the repository yet, and every request
   succeeds. *)
InitSuccess ==
  /\ InitCommon /\ RouteIdle
  /\ SubmitIdle
  /\ userLoggedIn = TRUE
  /\ solved \in SolvedLists
  /\ Len(solved) > 0
  /\ accepted = [p \in Problems |-> IF p \in Range(solved) THEN Langs ELSE {}]
  /\ repo = {}

Success == [status |-> 200, body |-> "data"]

NextSuccess ==
  \/ StartSync(1)
  \/ StartWritten(1)
  \/ SolvedProblemsAnsweredBy(1, {200})
  \/ QueueDrained(1)
  \/ FinalWritten(1)
  \/ ControllerWritten(1)
  \/ \E w \in Slots : SubmissionsAnsweredBy(w, {Success})
  \/ \E l \in Loops : ExistenceAnsweredBy(l, {200, 404})
  \/ \E l \in Loops : CreateAnsweredBy(l, {201})
  \/ \E l \in Loops : QueueWake(l)

SpecSuccess == InitSuccess /\ [][NextSuccess]_vars

(* One session whose backlog of MaxBacklog problems is longer than the
   worker pool; no problem has a submission with code, so nothing is
   written; the fetch of one of the first MaxFailing problems is answered
   with success, with 429 or with 403, every other fetch with success. *)
InitBacklog ==
  /\ InitCommon /\ RouteIdle
  /\ SubmitIdle
  /\ userLoggedIn = TRUE
  /\ solved \in SolvedLists
  /\ Len(solved) = MaxBacklog
  /\ accepted = [p \in Problems |-> {}]
  /\ repo = {}

PoolResponses ==
  {Success, [status |-> 429, body |-> "nodata"], [status |-> 403, body |-> "nodata"]}

NextBacklog ==
  \/ StartSync(1)
  \/ StartWritten(1)
  \/ SolvedProblemsAnsweredBy(1, {200})
  \/ FinalWritten(1)
  \/ ControllerWritten(1)
  \/ \E w \in Slots :
       SubmissionsAnsweredBy(w, IF workers[w].phase = "fetch"
                                   /\ workers[w].problem <= MaxFailing
                                THEN PoolResponses ELSE {Success})
  \/ ResumeTimerFired(1)
  \/ RetryTimerFired(1)

SpecBacklog == InitBacklog /\ [][NextBacklog]_vars

(* One call of getSubmissionsByLanguage, for every answer to the list call
   and to each of up to MaxDetails detail calls. *)
InitFetch ==
  /\ InitCommon /\ RouteIdle
  /\ userLoggedIn = TRUE
  /\ solved = <<>>
  /\ accepted = [p \in Problems |-> {}]
  /\ repo = {}
  /\ now = 0
  /\ files = [f \in Paths |-> NoFile]
  /\ settings = [configValid |-> TRUE, skipDuplicates |-> TRUE, multiple |-> FALSE]
  /\ submissionInProgress = FALSE
  /\ thisProblem = NoCall.prob
  /\ thisComment = <<>>
  /\ call = [c \in Calls |-> NoCall]
  /\ writes = 0
  /\ statsUpdates = 0
  /\ listResponse \in Responses(ListBodies)
  /\ \E n \in 0..MaxDetails : detailResponses \in [1..n -> Responses(DetailBodies)]
  /\ fetched = NotFetched
  /\ RetainIdle

NextFetch == Fetch

SpecFetch == InitFetch /\ [][NextFetch]_vars

(* The pick of the most recent submission per language, for every list of
   up to MaxSubmissions submissions. *)
InitRetain ==
  /\ InitCommon /\ RouteIdle
  /\ userLoggedIn = TRUE
  /\ solved = <<>>
  /\ accepted = [p \in Problems |-> {}]
  /\ repo = {}
  /\ now = 0
  /\ files = [f \in Paths |-> NoFile]
  /\ settings = [configValid |-> TRUE, skipDuplicates |-> TRUE, multiple |-> FALSE]
  /\ submissionInProgress = FALSE
  /\ thisProblem = NoCall.prob
  /\ thisComment = <<>>
  /\ call = [c \in Calls |-> NoCall]
  /\ writes = 0
  /\ statsUpdates = 0
  /\ listResponse = [status |-> 200, body |-> "data"]
  /\ detailResponses = <<>>
  /\ fetched = NotFetched
  /\ \E n \in 0..MaxSubmissions :
       submissions \in [1..n -> [lang : SubmissionLangs, timestamp : Timestamps,
                                 status : SubmissionStatuses]]
  /\ submissionsByLang = NotRetained

NextRetain == Retain

SpecRetain == InitRetain /\ [][NextRetain]_vars

(* Submissions from a problem page through one GithubService, with the
   settings and the file already in the repository as inputs. *)
InitSubmit ==
  /\ InitCommon /\ RouteIdle
  /\ FetchIdle
  /\ userLoggedIn = TRUE
  /\ solved = <<>>
  /\ accepted = [p \in Problems |-> {}]
  /\ repo = {}
  /\ now = 0
  /\ settings \in [configValid : BOOLEAN, skipDuplicates : BOOLEAN, multiple : BOOLEAN]
  /\ files \in {[f \in Paths |-> NoFile],
                [f \in Paths |-> IF f = 0
                                 THEN [exists |-> TRUE, content |-> <<"z">>, sha |-> 1]
                                 ELSE NoFile]}
  /\ submissionInProgress = FALSE
  /\ thisProblem = NoCall.prob
  /\ thisComment = <<>>
  /\ call = [c \in Calls |-> NoCall]
  /\ writes = 0
  /\ statsUpdates = 0

NextSubmit ==
  \/ \E c \in Calls : SubmitToGitHub(c)
  \/ \E c \in Calls : InitAnswered(c)
  \/ \E c \in Calls : ExistenceChecked(c)
  \/ \E c \in Calls : ConfigAnswered(c)
  \/ \E c \in Calls : UpdateAnswered(c)
  \/ \E c \in Calls : SubmitCreateAnswered(c)
  \/ \E c \in Calls : ReadmeAnswered(c)
  \/ Tick

SpecSubmit == InitSubmit /\ [][NextSubmit]_vars

(* ---------------- properties of one session ---------------- *)

Last(s) == s[Len(s)]

InFlight(p) == {w \in Slots : workers[w].phase # "none" /\ workers[w].problem = p}

Armed(r) == armed[r]["resume"] + armed[r]["retry"]

(* C1: whenever startSync computes the final status (processProblemsQueue
   has resolved and the write queue is drained), stats.processed equals
   stats.total. *)
C1_ProcessedEqualsTotal ==
  \A r \in Runs : pc[r] = "final" => stats.processed = stats.total

(* A session that ran through all retry rounds and ends with problems
   synced, skipped and failed, some of them failed by the spent budget. *)
C1_Witness ==
  /\ pc[1] = "final"
  /\ retryCount = maxRetries
  /\ failedProblems # <<>>
  /\ stats.skipped > 0
  /\ stats.failed > Len(failedProblems)
  /\ stats.processed = stats.total

(* C6: the retry-round counter never exceeds maxRetries, and no problem is
   attempted more than 1 + maxRetries times. *)
C6_RetryBound ==
  /\ retryCount <= maxRetries
  /\ \A p \in Problems : Len(hist[p]) + Cardinality(InFlight(p)) <= 1 + maxRetries

(* A problem that failed with needsPause four times, the budget being spent. *)
C6_Witness ==
  /\ retryCount = maxRetries
  /\ \E p \in Problems : hist[p] = <<"pause", "pause", "pause", "pause">>

(* C7: at any time at most one pause/resume timer is armed, however many
   workers fail with needsPause within one pause window. *)
C7_OneTimer == \A r \in Runs : Armed(r) <= 1

(* Three workers have failed with needsPause within one pause window. *)
C7_Witness ==
  /\ isPaused[1] /\ pauseTimer[1] = "resume"
  /\ Len(failedProblems) >= 3
  /\ Armed(1) = 1

RECURSIVE SumOver(_, _)
SumOver(f, set) ==
  IF set = {} THEN 0
  ELSE LET x == CHOOSE y \in set : TRUE IN f[x] + SumOver(f, set \ {x})

FailedSum == SumOver([p \in Problems |-> tally[p].failed], Problems)

ProcessedSum == SumOver([p \in Problems |-> tally[p].processed], Problems)

PermanentOutcomes == {"perm", "werr"}

(* The session can take no further step. *)
Stopped == ~ENABLED Next

TooManyRequests == [status |-> 429, body |-> "nodata"]

(* C4: a problem whose fetch fails with needsPause on every attempt ends
   counted as failed exactly once (failed and processed one each), and the
   session completes: a session that has stopped has counted it and has
   returned. *)
C4_AlwaysPausedCountedOnce ==
  \A p \in Problems :
    (/\ hist[p] # <<>>
     /\ \A i \in 1..Len(hist[p]) : hist[p][i] = "pause"
     /\ Stopped)
    => /\ tally[p] = [processed |-> 1, failed |-> 1]
       /\ pc[1] = "done"

(* C5: a problem whose first fetch is answered 429 and whose every later
   attempt succeeds ends counted in processed exactly once and never in
   failed, and the session completes. *)
C5_RateLimitedThenCounted ==
  \A p \in Problems :
    (/\ hist[p] # <<>>
     /\ Head(hist[p]) = OutcomeOf(TooManyRequests)
     /\ \A i \in 2..Len(hist[p]) : hist[p][i] = "ok"
     /\ Stopped)
    => /\ tally[p] = [processed |-> 1, failed |-> 0]
       /\ pc[1] = "done"

(* C8: the persisted status is "success" only when every problem was
   processed and none failed, it is "partial" when all were processed and
   some failed, and the controller leaves that status in the store. *)
C8_StatusMatchesStats ==
  /\ store.status = "success" => (stats.processed = stats.total /\ stats.failed = 0)
  /\ \A r \in Runs :
       (/\ pc[r] \in {"ctrl", "done"}
        /\ result[r].status \in {"success", "partial"}
        /\ stats.processed = stats.total /\ stats.failed > 0)
       => store.status = "partial"

(* C10: a failure without needsPause counts the problem once in failed and
   in processed, does not defer it, arms no resume timer, and the problem
   is not attempted again. *)
C10_PermanentFailure ==
  [][\A p \in Problems :
       /\ (Len(hist'[p]) = Len(hist[p]) + 1 /\ Last(hist'[p]) \in PermanentOutcomes)
          => /\ tally'[p] = [processed |-> tally[p].processed + 1,
                             failed |-> tally[p].failed + 1]
             /\ stats'.failed = FailedSum' /\ stats'.processed = ProcessedSum'
             /\ p \notin Range(failedProblems')
             /\ \A r \in Runs : armed'[r]["resume"] = armed[r]["resume"]
             /\ InFlight(p)' = {}
       /\ (hist[p] # <<>> /\ Last(hist[p]) \in PermanentOutcomes)
          => hist'[p] = hist[p] /\ InFlight(p)' = {} /\ tally'[p] = tally[p]
    ]_vars

(* A problem deferred twice and then failed for good, in a finished session. *)
C10_Witness ==
  /\ pc[1] = "done"
  /\ \E p \in Problems :
       /\ hist[p] = <<"pause", "pause", "perm">>
       /\ tally[p] = [processed |-> 1, failed |-> 1]

(* ---------------- properties of several start commands ---------------- *)

(* The run has passed the guard and reset the service, and has not yet
   written a terminal status. *)
Running(r) == pc[r] \in {"listing", "queue", "resolved", "drain", "final", "failset"}

(* C2: at most one sync run is active at a time, whatever the sequence and
   interleaving of start commands. *)
C2_AtMostOneRun == Cardinality({r \in Runs : Running(r)}) <= 1

(* C3: a start that finds the in-progress flag set returns success false
   and leaves stats, backlog, deferred list, retry counter, workers and
   write queue as they are. *)
C3_RejectedStartFrame ==
  [][\A r \in Runs :
       (pc[r] = "idle" /\ pc'[r] # "idle" /\ store.inProgress)
       => /\ pc'[r] = "ctrl"
          /\ result'[r] = [success |-> FALSE, status |-> "rejected"]
          /\ UNCHANGED <<stats, failedProblems, retryCount, activePromises,
                         problemsToProcess, nextIndex, isPaused, armed,
                         githubQueue, githubProcessing, loops, workers>>
    ]_vars

(* A start was rejected while a session had a deferred problem, or a
   write operation under way. *)
C3_Witness ==
  \E r, q \in Runs :
    /\ pc[r] = "ctrl" /\ result[r].status = "rejected"
    /\ pc[q] = "queue" /\ stats.total > 0
    /\ githubProcessing
    /\ \E l \in Loops : loops[l].phase = "create"


(* ---------------- properties of submitToGitHub ---------------- *)

(* Two calls in succession (the second made after the first has finished)
   with the same problem and the same comment, where the first has written
   the file and the second has met no error. *)
SameTwice ==
  /\ settings.configValid /\ settings.skipDuplicates /\ ~settings.multiple
  /\ call[1].pc = "done" /\ call[2].pc = "done"
  /\ call[2].successive
  /\ call[1].prob = call[2].prob /\ call[1].cmt = call[2].cmt
  /\ call[1].outcome \in {"created", "updated"}
  /\ call[2].outcome # "error"

(* C9: with skip-duplicates on and multiple submissions off, two calls of
   submitToGitHub in succession with the same code and the same comment make
   exactly one remote write: the second call finds the content equal after
   normalization and issues no PUT. *)
C9_SameTwiceWritesOnce ==
  SameTwice => call[2].outcome = "skipped" /\ call[2].put = 0 /\ call[1].put = 1

(* ---------------- properties of the bulk writes ---------------- *)

(* Every language file of problem p is in the repository. *)
AllFilesExist(p) ==
  accepted[p] # {} /\ \A lang \in accepted[p] : <<p, lang>> \in repo

(* C11: for a problem all of whose language files are already in the
   repository no create or update request is issued, and when its
   processing ends stats.skipped, and not stats.synced, grows by exactly
   one; it is counted once. *)
C11_ExistingFilesSkipped ==
  [][\A p \in Problems :
       AllFilesExist(p) =>
         /\ \A l \in Loops :
              loops'[l].phase = "create" => loops'[l].op.problem # p
         /\ (Len(hist'[p]) = Len(hist[p]) + 1 /\ Last(hist'[p]) = "ok")
            => /\ stats'.skipped = stats.skipped + 1
               /\ stats'.synced = stats.synced
               /\ stats'.processed = stats.processed + 1
               /\ puts' = puts
         /\ (hist[p] # <<>> /\ Last(hist[p]) = "ok") => hist'[p] = hist[p]
    ]_vars

(* A finished session in which a problem with code had its file in the
   repository from the start and was skipped, next to one that was written. *)
C11_Witness ==
  /\ pc[1] = "done"
  /\ stats.skipped = 1 /\ stats.synced = 1
  /\ \E p \in Problems :
       /\ AllFilesExist(p)
       /\ hist[p] = <<"ok">>
       /\ \E q \in Problems : q # p /\ hist[q] = <<"ok">> /\ accepted[q] # {}
  /\ puts = 1

(* A request of the session is waiting for its answer, or the session is
   about to take its next step. *)
RequestPending ==
  \/ pc[1] \in {"idle", "set", "listing", "failset", "final", "ctrl"}
  \/ pc[1] = "drain" /\ ~queueBusy(St)
  \/ \E w \in Slots : workers[w].phase = "fetch"
  \/ \E l \in Loops : loops[l].phase \in {"check", "create", "sleep"}

AllSynced ==
  /\ stats.total = Len(solved)
  /\ stats.synced = stats.total
  /\ stats.skipped = 0
  /\ stats.failed = 0
  /\ stats.processed = stats.total

(* C12: for a non-empty backlog in which every fetch and every write
   succeeds and every problem has a language file that is not in the
   repository, the session completes, with synced = total, skipped = 0,
   failed = 0 and processed = total: as long as startSync has not returned
   some request is pending, and its result is computed with these numbers. *)
C12_AllSynced ==
  /\ ~RequestPending => pc[1] = "done"
  /\ pc[1] \in {"final", "ctrl", "done"} => (AllSynced /\ result[1].success)

(* A finished session whose backlog was longer than the worker pool. *)
C12_Witness ==
  /\ pc[1] = "done"
  /\ Len(solved) > maxParallel
  /\ stats.synced = Len(solved)
  /\ puts = Len(solved) * NumLangs

(* ---------------- properties of the solved list ---------------- *)

(* C13: when the user is not logged in as a sync starts, listing the solved
   problems fails and the session is fatal: no worker is started, nothing is
   retried, no timer is armed, the result is success false, and the failed
   status is written with the in-progress flag cleared. *)
C13_LoggedOutIsFatal ==
  [][\A r \in Runs :
       /\ (pc[r] = "set" /\ pc'[r] # "set" /\ ~userLoggedIn)
          => (pc'[r] = "listing" /\ workers' = workers)
       /\ (pc[r] = "listing" /\ pc'[r] # "listing" /\ ~userLoggedIn)
          => /\ pc'[r] = "failset"
             /\ result'[r] = [success |-> FALSE, status |-> "failed"]
             /\ workers' = workers /\ retryCount' = retryCount /\ armed' = armed
       /\ (pc[r] = "failset" /\ pc'[r] # "failset")
          => /\ store' = [inProgress |-> FALSE, status |-> "failed"]
             /\ pc'[r] = "ctrl"
    ]_vars

(* ---------------- properties of the write queue ---------------- *)

(* The queued operations that are executing: taken off the queue and not
   yet settled. *)
Executing == {l \in Loops : loops[l].phase \in {"check", "create"}}

(* C14: startSync computes the final stats, and then writes the terminal
   status, only when waitForGithubQueueCompletion has returned, which is in
   a state where the write queue is empty and no queued operation is
   executing. *)
C14_FinalAfterQueueIdle ==
  [][\A r \in Runs :
       (pc[r] # "final" /\ pc'[r] = "final")
       => /\ pc[r] \in {"queue", "drain"}
          /\ githubQueue' = <<>>
          /\ ~githubProcessing'
          /\ Executing' = {}
    ]_vars

(* C15: at most one queued GitHub operation is executing at any time,
   however many workers have called processGithubOperation. *)
C15_OneOperationExecuting == Cardinality(Executing) <= 1

(* Loop l takes an operation off the queue and starts it in this step. *)
Starts(l) == loops'[l].phase = "check" /\ loops'[l] # loops[l]

(* C16: queued operations start in the order in which
   processGithubOperation was called: the one that starts is the oldest in
   the queue, it starts when no other operation is executing, the
   operations behind it keep their order, and an operation leaves the queue
   only by starting. *)
C16_FifoStart ==
  [][/\ \A l \in Loops :
          Starts(l) =>
            /\ Executing' = {l}
            /\ githubQueue # <<>> =>
                 /\ loops'[l].op = Head(githubQueue)
                 /\ Len(githubQueue') >= Len(githubQueue) - 1
                 /\ SubSeq(githubQueue', 1, Len(githubQueue) - 1) = Tail(githubQueue)
     /\ (\A l \in Loops : ~Starts(l)) =>
          /\ Len(githubQueue') >= Len(githubQueue)
          /\ SubSeq(githubQueue', 1, Len(githubQueue)) = githubQueue
    ]_vars

(* ---------------- properties of a failing store ---------------- *)

(* C17: whichever read or write of the store fails, at the guard, at the
   write of the in-progress status or at finalization, neither startSync
   nor the controller throws: each returns a result object. *)
C17_ResultNotThrown ==
  \A r \in Runs : result[r] # Thrown /\ pc[r] # "threw"

(* ---------------- properties of getSubmissionsByLanguage ---------------- *)

(* The call got no successful response: a network failure or a status
   outside 200..299. *)
HttpFailed(resp) == resp.status = NetworkFailure \/ resp.status \notin 200..299

PauseStatus(resp) == resp.status = 429 \/ resp.status >= 500

(* The response is one from which the fetch goes on. *)
Clean(resp) == ~HttpFailed(resp) /\ resp.body \in {"data", "nocode"}

(* The i-th detail call is made, and every call before it went well. *)
Reached(i) ==
  /\ i \in 1..Len(detailResponses)
  /\ Clean(listResponse)
  /\ \A j \in 1..(i - 1) : Clean(detailResponses[j])

ErrorOfStatus(resp) == IF PauseStatus(resp) THEN "pause" ELSE "perm"

(* C18, amended: when the list call or a detail call gets no successful
   response, getSubmissionsByLanguage raises an error, which has needsPause
   exactly when the status is 429 or at least 500; a network failure and
   every other status give an error without needsPause. *)
C18_StatusDecidesPause ==
  fetched.done =>
    /\ HttpFailed(listResponse) => fetched.error = ErrorOfStatus(listResponse)
    /\ \A i \in 1..Len(detailResponses) :
         (Reached(i) /\ HttpFailed(detailResponses[i]))
         => fetched.error = ErrorOfStatus(detailResponses[i])

(* The second detail call is answered 503 after a first one that went well. *)
C18_Witness ==
  /\ fetched.done
  /\ Reached(2)
  /\ detailResponses[2].status = 503
  /\ fetched.error = "pause"

(* C18 as stated: an error with needsPause is raised exactly when the
   status of the list call or of a detail call is 429 or at least 500. *)
C18_PauseOnlyOnStatus ==
  fetched.done =>
    /\ C18_StatusDecidesPause
    /\ fetched.error = "pause"
       => \/ PauseStatus(listResponse)
          \/ \E i \in 1..Len(detailResponses) : PauseStatus(detailResponses[i])

(* C19: a successful response of the list call or of a detail call in
   which expected data is missing or malformed raises an error with
   needsPause; details without code raise nothing, that language is left
   out and the other languages are returned. *)
C19_MissingDataPauses ==
  fetched.done =>
    /\ (~HttpFailed(listResponse)
        /\ listResponse.body \in {"nodata", "nosubmissions", "notjson"})
       => fetched.error = "pause"
    /\ \A i \in 1..Len(detailResponses) :
         (/\ Reached(i)
          /\ ~HttpFailed(detailResponses[i])
          /\ detailResponses[i].body \in {"nodata", "nodetails", "noquestion", "notjson"})
         => fetched.error = "pause"
    /\ (Clean(listResponse) /\ \A i \in 1..Len(detailResponses) : Clean(detailResponses[i]))
       => /\ fetched.error = "none"
          /\ fetched.langs = {i \in 1..Len(detailResponses) : detailResponses[i].body = "data"}

(* ---------------- properties of createFile ---------------- *)

(* The PUT of createFile in call c was answered, and not with success. *)
CreateRefused(c) ==
  /\ call[c].pc = "done"
  /\ call[c].response # NoResponse
  /\ ~HttpOk(call[c].response.status)

SaysAlreadyExists(c) ==
  call[c].response.status = 422 /\ call[c].response.alreadyExists

(* C20: createFile returns without throwing on a 422 response that says
   the file already exists; on any other response without success it
   throws to its caller; either way it has sent its PUT only once. *)
C20_AlreadyExistsIsSuccess ==
  \A c \in Calls :
    CreateRefused(c) =>
      /\ call[c].outcome = (IF SaysAlreadyExists(c) THEN "exists" ELSE "error")
      /\ call[c].put = 1

(* A create is answered 422 "already exists" and the call ends without
   an error. *)
C20_Witness ==
  \E c \in Calls :
    /\ CreateRefused(c)
    /\ SaysAlreadyExists(c)
    /\ call[c].outcome = "exists"
    /\ ~submissionInProgress

(* ---------------- properties of checkFileExistence ---------------- *)

LookedUp(c) == call[c].lookup # NoLookup

(* C21: checkFileExistence returns null without an error when the lookup
   answers 404, returns the file record with its sha when the lookup
   succeeds, and throws on every other status, which ends submitToGitHub
   with that error before any PUT. *)
C21_LookupOutcome ==
  \A c \in Calls :
    LookedUp(c) =>
      LET status == call[c].lookup.status
          returned == call[c].lookup.returned
      IN /\ status = 404 => returned = "null" /\ call[c].fileExists = NoFile
         /\ HttpOk(status)
            => /\ returned = "file"
               /\ call[c].fileExists.exists
               /\ call[c].fileExists.sha >= 1
         /\ (~HttpOk(status) /\ status # 404)
            => /\ returned = "threw"
               /\ call[c].pc = "done"
               /\ call[c].outcome = "error"
               /\ call[c].put = 0

(* One lookup is answered 404 and its call goes on to create the file;
   the lookup of the other call finds that file. *)
C21_Witness ==
  \E c, d \in Calls :
    /\ call[c].lookup = [status |-> 404, returned |-> "null"]
    /\ call[c].outcome = "created"
    /\ call[d].lookup = [status |-> 200, returned |-> "file"]
    /\ call[d].fileExists.sha = 1

(* ---------------- properties of the pick per language ---------------- *)

(* The places in the list of the accepted submissions of language l. *)
AcceptedIn(l) ==
  {i \in 1..Len(submissions) : submissions[i].status = 10 /\ submissions[i].lang = l}

TimeOf(i) == parseInt(submissions[i].timestamp)

(* C22: for each language with an accepted submission exactly one
   submission is retained: one with the greatest timestamp of that
   language, and the first in list order among those; a language without
   an accepted submission retains nothing. *)
C22_MostRecentFirstSeen ==
  submissionsByLang # NotRetained =>
    \A l \in SubmissionLangs :
      IF AcceptedIn(l) = {} THEN submissionsByLang[l] = NoSubmission
      ELSE LET k == submissionsByLang[l].id
           IN /\ k \in AcceptedIn(l)
              /\ submissionsByLang[l].timestamp = TimeOf(k)
              /\ \A j \in AcceptedIn(l) :
                   /\ TimeOf(j) <= TimeOf(k)
                   /\ TimeOf(j) = TimeOf(k) => k <= j

(* Python has an older submission, then two with the same greatest
   timestamp written in two ways: the first of the two is retained. *)
C22_Witness ==
  /\ submissionsByLang # NotRetained
  /\ Len(submissions) = 4
  /\ AcceptedIn("python3") = {1, 2, 4}
  /\ submissions[1].timestamp = <<1>>
  /\ submissions[2].timestamp = <<0, 2>>
  /\ submissions[4].timestamp = <<2>>
  /\ submissionsByLang["python3"].id = 2

(* ---------------- properties of the difficulty statistics ---------------- *)

(* C23: every creation of a solution file, by a submission from a problem
   page (writes) or by the bulk synchronisation (puts), comes with one
   updateDifficultyStats message. *)
C23_CreationUpdatesStats ==
  [][(puts' = puts + 1 \/ (writes' = writes + 1 /\ \E c \in Calls :
                                call[c].pc = "create" /\ call'[c].pc = "done"))
     => statsUpdates' = statsUpdates + 1]_vars

(* ---------------- properties of the end of a session ---------------- *)

TerminalStatuses == {"success", "partial", "failed"}

TimerPending == \E r \in Runs : armed[r]["resume"] > 0 \/ armed[r]["retry"] > 0

(* Nothing of the session is pending: no request, no write, no timer. *)
Quiescent == ~RequestPending /\ ~TimerPending

(* C24: a session that passed the in-progress guard completes: once
   nothing of it is pending any more (no request, no timer, no write),
   startSync has returned, a terminal status is persisted and the
   in-progress flag is false. *)
C24_SessionCompletes ==
  (Quiescent /\ starts > 0)
  => /\ pc[1] = "done"
     /\ ~isSyncing
     /\ ~store.inProgress
     /\ store.status \in TerminalStatuses

(* The solved list has been delivered to startSync and it is empty. *)
EmptyListDelivered ==
  /\ starts > 0
  /\ pc[1] \notin {"idle", "set", "listing"}
  /\ ~cachedProblems.isNull
  /\ cachedProblems.list = <<>>

(* C26: with an empty solved list the session completes at once: total
   and processed are 0, startSync goes straight on to persist a terminal
   status, and when it has returned the in-progress flag is false. *)
C26_EmptyListCompletes ==
  EmptyListDelivered
  => /\ stats.total = 0
     /\ stats.processed = 0
     /\ pc[1] \in {"final", "ctrl", "done"}
     /\ pc[1] \in {"ctrl", "done"}
        => (~store.inProgress /\ store.status \in TerminalStatuses)

(* ---------------- properties of the retry rounds ---------------- *)

(* The backlog is exhausted and no worker is active while problems are
   deferred and the retry budget is not spent. *)
RetryDue ==
  /\ pc[1] = "queue"
  /\ nextIndex[1] >= Len(problemsToProcess[1])
  /\ activePromises = {}
  /\ failedProblems # <<>>
  /\ retryCount < maxRetries

(* C25: whenever a retry round is due the scheduler starts it (the
   deferred list becomes the backlog, the retry counter goes up by one, a
   pause runs before any worker starts): a session in which a retry round
   is due is never left with nothing pending. *)
C25_DueRetryRoundStarts == RetryDue => ~Quiescent

(* ---------------- properties of a rejected start ---------------- *)

(* Start command r takes a step as a rejected command: it finds the
   in-progress flag set, or its controller finishes after the rejection. *)
RejectedStep(r) ==
  \/ pc[r] = "idle" /\ pc'[r] # "idle" /\ store.inProgress
  \/ pc[r] = "ctrl" /\ pc'[r] = "done" /\ result[r].status = "rejected"

(* C27: a start command rejected because a sync is in progress changes no
   persisted flag: the in-progress flag stays true and the last-sync
   status stays what the running session wrote. *)
C27_RejectedStartKeepsFlags ==
  [][\A r \in Runs : RejectedStep(r) => (store' = store /\ store'.inProgress)]_vars

(* ---------------- properties of the pause ---------------- *)

(* C28: a pause trigger that arrives while the pool is paused resets the
   pause timer: the pending resume timer is always one set at the latest
   trigger, never one set before it. *)
C28_LatestTriggerSetsTimer ==
  \A r \in Runs : armed[r]["resume"] > 0 => ~lateTrigger[r]

(* A worker slot that is free before the step and taken after it. *)
Started(w) == workers[w].phase = "none" /\ workers'[w].phase # "none"

(* Worker w ends in the step. *)
Ended(w) == workers[w].phase # "none" /\ workers'[w].phase = "none"

(* The outcome of the worker that ends in the step is tallied: a success
   or a permanent failure in the counters, a needsPause failure in the
   deferred list. *)
Tallied(w) ==
  LET p == workers[w].problem
      outcome == hist'[p][Len(hist'[p])]
  IN /\ Len(hist'[p]) = Len(hist[p]) + 1
     /\ activePromises' = activePromises \ {workers[w].index}
     /\ outcome = "ok"
        => /\ stats'.processed = stats.processed + 1
           /\ stats'.failed = stats.failed
           /\ failedProblems' = failedProblems
     /\ outcome \in PermanentOutcomes
        => /\ stats'.processed = stats.processed + 1
           /\ stats'.failed = stats.failed + 1
           /\ failedProblems' = failedProblems
     /\ outcome = "pause"
        => /\ stats'.processed = stats.processed
           /\ stats'.failed = stats.failed
           /\ failedProblems' = Append(failedProblems, p)

(* C29: in a step during which the pool of a session stays paused no
   problem of that session is started, neither by a worker that ends nor
   by the retry logic, and a worker of the session that ends in such a
   step has its outcome tallied. *)
C29_NoStartWhilePaused ==
  [][\A r \in Runs :
       (isPaused[r] /\ isPaused'[r])
       => /\ nextIndex'[r] = nextIndex[r]
          /\ problemsToProcess'[r] = problemsToProcess[r]
          /\ \A w \in Slots : ~(Started(w) /\ workers'[w].run = r)
          /\ \A w \in Slots : (Ended(w) /\ workers[w].run = r) => Tallied(w)]_vars

(* The pool is paused with problems left in the backlog, and the workers
   that were in flight at the pause have all ended, one of them with
   success and one with a permanent failure; nothing was started. *)
C29_Witness ==
  /\ isPaused[1]
  /\ pauseTimer[1] = "resume"
  /\ nextIndex[1] = maxParallel
  /\ Len(problemsToProcess[1]) > nextIndex[1]
  /\ \A w \in Slots : workers[w].phase = "none"
  /\ Len(failedProblems) = 1
  /\ hist[1] = <<"pause">>
  /\ stats.processed = maxParallel - 1
  /\ stats.failed > 0
  /\ stats.failed < stats.processed

InFlightOf(r) == {w \in Slots : workers[w].phase # "none" /\ workers[w].run = r}

(* Two start commands, the second given while the first session is at
   work on a backlog longer than the pool; the fetch of the first problem
   may be answered 429; the run is followed for MaxAnswers answers. *)
Starters == {1, 2}

Answers == SumOver([p \in Problems |-> Len(hist[p])], Problems)

(* One of the first MaxAnswers fetches is answered. *)
SubmissionsAnsweredEarly(w) ==
  /\ Answers < MaxAnswers
  /\ SubmissionsAnsweredBy(w, IF workers[w].phase = "fetch" /\ workers[w].problem <= 1
                              THEN {Success, TooManyRequests} ELSE {Success})

NextOverlap ==
  \/ \E r \in Starters : StartSync(r)
  \/ \E r \in Starters : StartWritten(r)
  \/ \E r \in Starters : SolvedProblemsAnsweredBy(r, {200})
  \/ \E r \in Starters : ControllerWritten(r)
  \/ \E w \in Slots : SubmissionsAnsweredEarly(w)
  \/ \E r \in Starters : ResumeTimerFired(r)

SpecOverlap == InitBacklog /\ [][NextOverlap]_vars

(* C30: at most maxParallel workers of a session are in flight at any
   time, also right after a resume and at the start of a retry round. *)
C30_AtMostMaxParallel ==
  \A r \in Runs : Cardinality(InFlightOf(r)) <= maxParallel
(* ---------------- the counters of a session ---------------- *)

(* The attempt of problem p that ends in this step. *)
EndsWith(p, outcomes) ==
  Len(hist'[p]) = Len(hist[p]) + 1 /\ Last(hist'[p]) \in outcomes

(* processProblemsQueue resolves in this step with p left on the deferred
   list: the retry budget is spent on it. *)
Exhausted(p) ==
  \E r \in Runs : /\ pc[r] = "queue" /\ pc'[r] # "queue"
                  /\ p \in Range(failedProblems')

(* p reaches a terminal outcome in this step. *)
Terminal(p) == EndsWith(p, {"ok"} \cup PermanentOutcomes) \/ Exhausted(p)

(* startSync resets the counters in this step (lines 64-71). *)
CountersReset == \E r \in Runs : pc[r] = "set" /\ pc'[r] # "set"

(* C31: in every step, but for the reset at the start of a session,
   stats.processed grows by one for each problem that reaches a terminal
   outcome in it (success, permanent failure, or the retry budget spent)
   and by nothing else; a step in which a worker fails with needsPause
   leaves it unchanged; and no problem is counted in it more than once. *)
C31_ProcessedOncePerTerminal ==
  [][/\ ~CountersReset
        => stats'.processed
             = stats.processed + Cardinality({p \in Problems : Terminal(p)})
     /\ \A p \in Problems :
          /\ EndsWith(p, {"pause"}) => stats'.processed = stats.processed
          /\ tally'[p].processed
               = tally[p].processed + (IF Terminal(p) THEN 1 ELSE 0)
          /\ tally'[p].processed <= 1]_vars

(* Worker w ends its problem with success in this step. *)
Succeeded(w) ==
  /\ Ended(w)
  /\ Len(hist'[workers[w].problem]) = Len(hist[workers[w].problem]) + 1
  /\ Last(hist'[workers[w].problem]) = "ok"

(* Worker w has put a new file in the repository, before this step or in it. *)
WroteNewFile(w) ==
  \/ workers[w].written > 0
  \/ \E l \in Loops : /\ loops[l].phase = "create" /\ loops'[l].phase # "create"
                       /\ loops[l].op.w = w
                       /\ puts' = puts + 1

(* C32: a problem whose processing ends with success is counted in
   stats.synced exactly when a new file was written to the repository for
   it, and in stats.skipped otherwise. *)
C32_SyncedIffWritten ==
  [][\A w \in Slots :
       Succeeded(w) =>
         IF WroteNewFile(w)
         THEN stats'.synced = stats.synced + 1 /\ stats'.skipped = stats.skipped
         ELSE stats'.synced = stats.synced /\ stats'.skipped = stats.skipped + 1]_vars
(* C33: at all times stats.processed is the sum of stats.synced,
   stats.skipped and stats.failed, and it does not exceed stats.total. *)
C33_CountersAddUp ==
  /\ stats.processed = stats.synced + stats.skipped + stats.failed
  /\ stats.processed <= stats.total
(* ---------------- errors of the workers ---------------- *)

(* Worker w ends with an error in this step. *)
Failed(w) ==
  /\ Ended(w)
  /\ Len(hist'[workers[w].problem]) = Len(hist[workers[w].problem]) + 1
  /\ Last(hist'[workers[w].problem]) # "ok"

(* Run r has started no worker: its processProblemsQueue was never called. *)
NoWorkerOf(r) == problemsToProcess[r] = <<>> /\ nextIndex[r] = 0

(* C34: an error of a worker does not leave processProblemsQueue: in the
   step in which a worker fails its run stays in the scheduler or goes on
   to the final status, never to the catch of startSync; a run that ends
   with the status "failed" has started no worker (its error came from
   outside the workers); and when a worker fails for good while the pool is
   not paused and the backlog is not used up, the next backlog item is
   started in the same step. *)
C34_WorkerErrorsContained ==
  [][/\ \A w \in Slots :
          Failed(w) =>
            LET r == workers[w].run
            IN /\ pc'[r] \in {"queue", "drain", "final"}
               /\ result'[r].status # "failed"
               /\ (/\ Last(hist'[workers[w].problem]) \in PermanentOutcomes
                   /\ ~isPaused[r]
                   /\ nextIndex[r] < Len(problemsToProcess[r]))
                  => /\ nextIndex'[r] = nextIndex[r] + 1
                     /\ \E v \in Slots :
                          /\ Started(v)
                          /\ workers'[v].run = r
                          /\ workers'[v].problem = problemsToProcess[r][nextIndex[r] + 1]
     /\ \A r \in Runs :
          (/\ pc[r] = "ctrl" /\ pc'[r] = "done"
           /\ result[r].status # "rejected"
           /\ store'.status = "failed")
          => NoWorkerOf(r)]_vars

(* ---------------- the cache of the solved list ---------------- *)

(* C35: every session asks the problem source for the solved list (the
   request whose answer also tells whether the user is logged in), and it
   asks once: a session that has written its in-progress flags goes on to
   wait for the list, and nothing else leads there. *)
C35_FreshListPerSession ==
  [][\A r \in Runs :
       /\ (pc[r] = "set" /\ pc'[r] # "set") => pc'[r] = "listing"
       /\ (pc[r] # "listing" /\ pc'[r] = "listing") => pc[r] = "set"]_vars
(* ---------------- operations given to the write queue ---------------- *)

(* The operation of worker w waits in githubQueue. *)
Waiting(w) == \E i \in 1..Len(githubQueue) : githubQueue[i].w = w

(* The operation of worker w was taken off the queue and has not settled. *)
Taken(w) ==
  \E l \in Loops : loops[l].phase \in {"check", "create"} /\ loops[l].op.w = w

(* C36: every operation passed to processGithubOperation is executed and
   its promise settled.  An operation settles only by being taken off
   githubQueue by a loop of processGithubQueue, so it is lost for good once
   its caller waits for it while it is neither in the queue nor being
   executed, or once it waits in the queue while no loop is alive to take
   it; the claim is that neither ever happens. *)
C36_NoOperationLost ==
  /\ \A w \in Slots : workers[w].phase = "write" => Waiting(w) \/ Taken(w)
  /\ Len(githubQueue) > 0 => \E l \in Loops : loops[l].phase # "none"
(* The operation that loop l executes throws in this step. *)
Threw(l) ==
  /\ loops[l].phase \in {"check", "create"}
  /\ loops'[l].phase # loops[l].phase
  /\ Failed(loops[l].op.w)

(* C37: when a queued operation throws, the worker that passed it is the
   only one that fails, the operations that wait stay in the queue in their
   order and their callers keep waiting, and the loop goes on to its delay;
   a loop that wakes from its delay takes the oldest waiting operation, or,
   when none waits, ends and clears githubProcessing. *)
C37_ThrowRejectsOnlyCaller ==
  [][\A l \in Loops :
       /\ Threw(l)
          => /\ \A v \in Slots \ {loops[l].op.w} :
                  /\ ~Ended(v)
                  /\ workers[v].phase = "write" => workers'[v] = workers[v]
             /\ githubQueue' = githubQueue
             /\ loops'[l] = [phase |-> "sleep"]
       /\ (loops[l].phase = "sleep" /\ loops'[l].phase # "sleep")
          => IF githubQueue # <<>>
             THEN /\ loops'[l] = [phase |-> "check", op |-> Head(githubQueue)]
                  /\ githubQueue' = Tail(githubQueue)
             ELSE loops'[l] = NoLoop /\ ~githubProcessing']_vars

(* An operation threw while two others waited; both ran after it, in the
   order in which they were passed, and the loop has ended with the flag
   cleared. *)
C37_Witness ==
  /\ \E p \in Problems :
       /\ hist[p] = <<"werr">>
       /\ \A q \in Problems \ {p} : accepted[q] # {} => (q > p /\ hist[q] = <<"ok">>)
       /\ Cardinality({q \in Problems : accepted[q] # {}}) = MaxWithCode
  /\ puts = MaxWithCode - 1
  /\ githubQueue = <<>>
  /\ ~githubProcessing
  /\ \A l \in Loops : loops[l] = NoLoop
(* ---------------- a second session ---------------- *)

(* The first session has ended and every problem of the solved list
   succeeded in it at its first attempt. *)
FirstRunClean ==
  /\ pc[1] = "done"
  /\ result[1].status = "success"
  /\ \A p \in Range(solved) : hist[p] # <<>> /\ Head(hist[p]) = "ok"

(* The second session has computed its final status, every problem
   succeeded in it as well, and no later session has reset the counters. *)
SecondRunClean ==
  /\ pc[2] \in {"final", "ctrl", "done"}
  /\ \A r \in Runs : r > 2 => pc[r] \in {"idle", "set"}
  /\ \A p \in Range(solved) : hist[p] = <<"ok", "ok">>

(* C38: in a session that follows a session without failures, on the same
   solved list and repository, no PUT is issued, and when it ends without
   failures itself it has synced nothing and skipped every problem. *)
C38_SecondRunWritesNothing ==
  FirstRunClean =>
    /\ \A l \in Loops : loops[l].phase # "create"
    /\ SecondRunClean =>
         /\ stats.total = Len(solved)
         /\ stats.synced = 0
         /\ stats.skipped = stats.total
         /\ stats.processed = stats.total

(* Two sessions without failures on a list of two problems with code, no
   file of which was in the repository at first: the first session wrote
   both files, the second has ended and skipped both. *)
C38_Witness ==
  /\ FirstRunClean
  /\ SecondRunClean
  /\ pc[2] = "done"
  /\ Len(solved) = MaxSessionBacklog
  /\ \A p \in Range(solved) : accepted[p] # {}
  /\ puts = MaxSessionBacklog
  /\ stats.skipped = MaxSessionBacklog
(* ---------------- submissions that overlap ---------------- *)

(* Call c passes its guard in this step while another submission is in
   progress. *)
ArrivesDuring(c) ==
  call[c].pc = "init" /\ call'[c].pc # "init" /\ submissionInProgress

(* Call c ends in this step after it had passed the guard. *)
Finishes(c) ==
  call[c].pc \in {"check", "config", "update", "create", "readme"}
  /\ call'[c].pc = "done"

(* C39: a call that arrives while another submission is in progress ends
   at once, sends no lookup and no PUT, and leaves the problem and the
   comment of the service as the submission in progress set them; and when
   a call that had passed the guard ends, written, skipped or failed,
   submissionInProgress is false. *)
C39_LateCallChangesNothing ==
  [][\A c \in Calls :
       /\ ArrivesDuring(c)
          => /\ call'[c].pc = "done"
             /\ call'[c].looked = 0 /\ call'[c].put = 0
             /\ files' = files /\ writes' = writes
             /\ submissionInProgress'
             /\ thisProblem' = thisProblem
             /\ thisComment' = thisComment
       /\ Finishes(c) => ~submissionInProgress']_vars

(* ---------------- navigation between problem pages ---------------- *)

(* The tracker is constructed on any page of the site and the user moves
   between pages; no bulk session and no submission takes place. *)
InitRoute ==
  /\ InitCommon
  /\ \E page \in Pages : RouteConstructed(page)
  /\ userLoggedIn = TRUE
  /\ solved = <<>>
  /\ accepted = [p \in Problems |-> {}]
  /\ repo = {}
  /\ SubmitIdle

NextRoute ==
  \/ \E page \in Pages : Navigate(page)
  \/ DomChanged
  \/ MutationObserved
  \/ RouteChanged

SpecRoute == InitRoute /\ [][NextRoute]_vars

(* C40: when the user has only moved between problem pages, each move begun
   with the route service at rest, then once the route service is at rest
   again onRouteChange has been invoked exactly once for every move from
   one problem to another, and the problem the tracker holds is the problem
   of the page shown. *)
C40_ReinitOncePerNavigation ==
  (spaced /\ AtRest)
    => /\ invocations = navigations
       /\ problemUrl = location[2]
====
